---- MODULE Spec2Model ----
(***************************************************************************)
(* Position and risk accounting of the Upbit trading bot:                  *)
(*   RiskManager, OrderExecutor   (src/upbit/trading_engine.py)            *)
(*   TradingBot worker threads    (src/upbit/trading_bot.py)               *)
(*                                                                         *)
(* Amounts, prices and quantities are Python floats in the source.  They   *)
(* are modelled as exact rationals <<n, d>> in lowest terms with d > 0, so *)
(* that equalities between computed values mean equality of the real       *)
(* numbers the floats approximate.                                         *)
(*                                                                         *)
(* The exchange (pyupbit.Upbit, the real-trading branch of OrderExecutor)  *)
(* is external: what it reports and whether an order is filled are inputs  *)
(* of the actions.                                                         *)
(***************************************************************************)
EXTENDS Integers, Sequences, FiniteSets, TLC

----------------------------------------------------------------------------
(* Exact rational arithmetic standing for float arithmetic.                *)

Abs(x) == IF x < 0 THEN -x ELSE x

RECURSIVE GCD(_, _)
GCD(a, b) == IF b = 0 THEN a ELSE GCD(b, a % b)

Norm(n, d) ==
    LET s == IF d < 0 THEN -1 ELSE 1
        g == GCD(Abs(n), Abs(d))
    IN  <<(s * n) \div g, (s * d) \div g>>

R(n) == <<n, 1>>
Zero == R(0)

RAdd(a, b) ==
    LET g == GCD(a[2], b[2])
    IN  Norm(a[1] * (b[2] \div g) + b[1] * (a[2] \div g), (a[2] \div g) * b[2])

RNeg(a) == <<-a[1], a[2]>>

RSub(a, b) == RAdd(a, RNeg(b))

RMul(a, b) ==
    LET g1 == GCD(Abs(a[1]), b[2])
        g2 == GCD(Abs(b[1]), a[2])
    IN  Norm((a[1] \div g1) * (b[1] \div g2), (a[2] \div g2) * (b[2] \div g1))

RInv(a) == IF a[1] < 0 THEN <<-a[2], -a[1]>> ELSE <<a[2], a[1]>>

RDiv(a, b) == RMul(a, RInv(b))

(* a < b: whole parts first, then the fractional parts cross-multiplied *)
RLt(a, b) ==
    LET fa == a[1] \div a[2]
        fb == b[1] \div b[2]
        g == GCD(a[2], b[2])
    IN  IF fa # fb THEN fa < fb
        ELSE (a[1] % a[2]) * (b[2] \div g) < (b[1] % b[2]) * (a[2] \div g)

RLe(a, b) == a = b \/ RLt(a, b)

RMin(a, b) == IF RLt(b, a) THEN b ELSE a

RAbs(a) == <<Abs(a[1]), a[2]>>

----------------------------------------------------------------------------
(* TradingConfig defaults (src/upbit/config.py) and RiskManager constants. *)

initial_amount == 1000000
max_daily_profit == <<1, 2>>
max_daily_loss == <<3, 100>>
max_positions == 5
max_position_size == <<3, 10>>
stop_loss_rate == <<1, 50>>
compound_interest == TRUE
min_trade_amount == 50000
upbit_fee_rate == <<1, 2000>>
max_daily_trades == 100

(* config.target_coins in list order, cut down to two markets *)
target_coins == <<"KRW-BTC", "KRW-ETH">>
Symbols == {target_coins[i] : i \in 1..Len(target_coins)}

----------------------------------------------------------------------------
(* Bounds of the model and the inputs the environment supplies.            *)

(* fills the exchange confirms in one run *)
MaxOrders == 2

(* signal['price']: 0 stands for a missing price *)
SignalPrices == {0, 1000, 2000}

(* pyupbit.get_current_price in emergency_sell_all: 0 stands for None *)
MarketPrices == {0, 1000}

(* signal['confidence'] *)
Confidences == {R(1)}

(* what get_balance("KRW") reports *)
KrwBalances == {40000, 1000000}

(* the exchange's coin holding as a multiple of the ledger quantity *)
HeldFactors == {Zero, <<1, 2>>, R(1), R(2)}

(* trades update_pnl books in one run: one past the daily ceiling *)
MaxBookedTrades == 101

(* ceiling of daily_invested_amount in the runs of the RiskManager alone *)
MaxBookedInvested == 200000

(* invested_amount and profit_amount of the trades booked in those runs: the
   profits sit on and just inside the two return limits *)
BookedInvested == {Zero, R(100000)}
BookedProfits == {R(-3000), R(-2999), Zero, R(49999), R(50000)}

(* calls of start() that get as far as starting the worker threads *)
MaxStarts == 1

(* what analyze_symbol gives the trading pass for a symbol: no signal, an
   exception, or a BUY / SELL signal at the price of BotSignalPrices *)
BotSignals == {"none", "raises", "BUY", "SELL"}
BotSignalPrices == {1000}

(* what get_current_price gives the stop-loss sweep (0: None) *)
BotMarketPrices == {0, 900, 1000}

(* the trades of the day when the bot's run is taken up: none, or 99 fills
   (50 buys of 200000 KRW and 49 sells) that left the ledger empty *)
BookedBefore == {[trades |-> 0, invested |-> Zero],
                 [trades |-> 99, invested |-> R(10000000)]}

(* what a market order returns: an order dict, None, or an exception *)
OrderOutcomes == {"filled", "none", "raises"}

(* fills the exchange confirms in one run over the six markets *)
MaxMarketOrders == 7

(* signal['price'] of the sells that follow buys at 1000: unchanged, a rise
   that makes the profit of a sale of twice the ledger quantity exactly ten
   times the cost, and a rise that makes the profit more than ten times the
   cost *)
SurgePrices == {1000, 5500, 12000}

(* get_balance("KRW") and signal['confidence'] of the buys that are sized:
   balances at or above min_trade_amount of which a fifth is below, at and
   above min_trade_amount *)
SizedBalances == {166000, 250000, 1000000}
SizedConfidences == {Zero, R(1)}

(* signal['price'] of a signal that carries a negative number *)
MispricedSignals == {-1000}

(* the prices check_stop_loss is asked about, as offsets from the stop-loss
   price of the position *)
StopProbes == {R(-1), Zero, R(1)}

(* the first six markets of config.target_coins *)
Markets == <<"KRW-BTC", "KRW-ETH", "KRW-XRP", "KRW-ADA", "KRW-DOT", "KRW-LINK">>

(* balance, confidence and self.daily_profit_amount as calculate_position_size
   meets them when it is looked at on its own *)
SizingBalances == {0, 49999, 50000, 166000, 250000, 1000000, 2000000}
SizingConfidences == {Zero, <<1, 2>>, R(1), R(2)}
SizingProfits == {Zero, R(10000), R(1000000)}

(* VirtualWallet: the amounts and prices of the orders put to it (price 0:
   get_current_price returned None), the part of a holding a sell asks for,
   and the longest trade history followed *)
WalletAmounts == {400000, 700000}
WalletPrices == {0, 1000, 2000}

(* the prices of the signals in paper trading (0: the signal has none), and
   the trades in the wallet's history after which no operation is followed *)
PaperSignalPrices == {0, 1000}
MaxPaperTrades == 2
WalletFactors == {<<1, 2>>, <<1, 1>>, <<2, 1>>}
MaxWalletTrades == 3

----------------------------------------------------------------------------
VARIABLES
    include_fees,            \* config.include_fees, fixed per run
    positions,               \* RiskManager.positions: symbol -> position dict
    daily_pnl,               \* RiskManager.daily_pnl
    daily_trades,            \* RiskManager.daily_trades
    daily_invested_amount,   \* RiskManager.daily_invested_amount
    daily_profit_amount,     \* RiskManager.daily_profit_amount
    order_seq,               \* number of orders the exchange has filled (uuid source)
    last,                    \* the last operation: its name, the position it read, the
                             \* orders it sent, what it returned
    realized_profit,         \* profit_amount of the TradeResults returned since reset_daily
    realized_basis,          \* cost basis of the TradeResults returned since reset_daily
    balances,                \* VirtualWallet.balances: currency -> amount (paper trading)
    trade_history,           \* VirtualWallet.trade_history
    is_running,              \* TradingBot.is_running
    is_paused,               \* TradingBot.is_paused
    starts,                  \* number of times start() has started the worker threads
    threads                  \* the worker threads: thread -> its position and locals

(* real trading: upbit_or_wallet is the exchange client, there is no wallet *)
NoWallet == [c \in {} |-> Zero]

riskVars == <<daily_pnl, daily_trades, daily_invested_amount, daily_profit_amount>>
realizedVars == <<realized_profit, realized_basis>>
botVars == <<is_running, is_paused, starts, threads>>
walletVars == <<balances, trade_history>>
vars == <<balances, trade_history, include_fees, positions, daily_pnl, daily_trades,
          daily_invested_amount, daily_profit_amount, order_seq, last,
          realized_profit, realized_basis, is_running, is_paused, starts, threads>>

----------------------------------------------------------------------------
(* RiskManager (trading_engine.py)                                         *)

(* faulty variant of check_daily_limits: the two return limits are tested
   with strict comparisons, so a return exactly on a limit does not halt *)
check_daily_limits_strict ==
    LET actual_daily_return ==
            IF RLt(Zero, daily_invested_amount)
            THEN RDiv(daily_profit_amount, daily_invested_amount)
            ELSE Zero
    IN  IF RLt(max_daily_profit, actual_daily_return) THEN <<TRUE, "profit_target">>
        ELSE IF RLt(actual_daily_return, RNeg(max_daily_loss)) THEN <<TRUE, "loss_limit">>
        ELSE IF daily_trades >= max_daily_trades THEN <<TRUE, "trade_count">>
        ELSE <<FALSE, "normal">>

(* check_daily_limits: <<halt, reason>> *)
check_daily_limits ==
    LET actual_daily_return ==
            IF RLt(Zero, daily_invested_amount)
            THEN RDiv(daily_profit_amount, daily_invested_amount)
            ELSE Zero
    IN  IF RLe(max_daily_profit, actual_daily_return) THEN <<TRUE, "profit_target">>
        ELSE IF RLe(actual_daily_return, RNeg(max_daily_loss)) THEN <<TRUE, "loss_limit">>
        ELSE IF daily_trades >= max_daily_trades THEN <<TRUE, "trade_count">>
        ELSE <<FALSE, "normal">>

(* calculate_fees *)
calculate_fees(amount) ==
    IF ~include_fees THEN Zero ELSE RMul(amount, upbit_fee_rate)

(* faulty variant of calculate_position_size: the computed size is returned
   without the second test against min_trade_amount *)
calculate_position_size_unfloored(balance, confidence) ==
    IF RLe(balance, Zero) THEN Zero
    ELSE
    LET max_usable_balance == RMin(balance, R(initial_amount))
        confidence_multiplier == RAdd(<<1, 2>>, RMul(confidence, <<1, 2>>))
        position_count == Cardinality(DOMAIN positions)
        base1 == IF position_count >= 2 THEN RMul(<<1, 5>>, <<7, 10>>) ELSE <<1, 5>>
        base_allocation ==
            IF compound_interest /\ RLt(Zero, daily_profit_amount)
            THEN RMul(base1, RAdd(R(1), RMin(RMul(RDiv(daily_profit_amount, balance), <<1, 10>>),
                                            <<1, 20>>)))
            ELSE base1
    IN  IF RLt(max_usable_balance, R(min_trade_amount)) THEN Zero
        ELSE IF position_count >= max_positions THEN Zero
        ELSE RMin(RMul(RMul(max_usable_balance, base_allocation), confidence_multiplier),
                  RMul(max_usable_balance, max_position_size))

(* faulty variant of calculate_position_size: the number of open positions
   only shrinks the allocation and never declines the buy *)
calculate_position_size_uncounted(balance, confidence) ==
    IF RLe(balance, Zero) THEN Zero
    ELSE
    LET max_usable_balance == RMin(balance, R(initial_amount))
        confidence_multiplier == RAdd(<<1, 2>>, RMul(confidence, <<1, 2>>))
        position_count == Cardinality(DOMAIN positions)
        base1 == IF position_count >= 2 THEN RMul(<<1, 5>>, <<7, 10>>) ELSE <<1, 5>>
        base_allocation ==
            IF compound_interest /\ RLt(Zero, daily_profit_amount)
            THEN RMul(base1, RAdd(R(1), RMin(RMul(RDiv(daily_profit_amount, balance), <<1, 10>>),
                                            <<1, 20>>)))
            ELSE base1
        position_size == RMin(RMul(RMul(max_usable_balance, base_allocation), confidence_multiplier),
                              RMul(max_usable_balance, max_position_size))
    IN  IF RLt(max_usable_balance, R(min_trade_amount)) THEN Zero
        ELSE IF RLt(position_size, R(min_trade_amount)) THEN Zero
        ELSE position_size

(* calculate_position_size; the symbol argument is unused by the source *)
calculate_position_size(balance, confidence) ==
    IF RLe(balance, Zero) THEN Zero
    ELSE
    LET max_usable_balance == RMin(balance, R(initial_amount))
        confidence_multiplier == RAdd(<<1, 2>>, RMul(confidence, <<1, 2>>))
        position_count == Cardinality(DOMAIN positions)
        base1 == IF position_count >= 2 THEN RMul(<<1, 5>>, <<7, 10>>) ELSE <<1, 5>>
        base_allocation ==
            IF compound_interest /\ RLt(Zero, daily_profit_amount)
            THEN RMul(base1, RAdd(R(1), RMin(RMul(RDiv(daily_profit_amount, balance), <<1, 10>>),
                                            <<1, 20>>)))
            ELSE base1
        position_size == RMin(RMul(RMul(max_usable_balance, base_allocation), confidence_multiplier),
                              RMul(max_usable_balance, max_position_size))
    IN  IF RLt(max_usable_balance, R(min_trade_amount)) THEN Zero
        ELSE IF position_count >= max_positions THEN Zero
        ELSE IF RLt(position_size, R(min_trade_amount)) THEN Zero
        ELSE position_size

(* faulty variant of update_pnl: a buy is counted as a trade but its
   invested amount is not added *)
update_pnl_sells_only(trade_result) ==
    /\ IF trade_result.side = "sell" /\ RLt(Zero, trade_result.invested_amount)
       THEN LET profit == RAdd(daily_profit_amount, trade_result.profit_amount)
                invested == RAdd(daily_invested_amount, trade_result.invested_amount)
            IN  /\ daily_profit_amount' = profit
                /\ daily_invested_amount' = invested
                /\ daily_pnl' = IF RLt(Zero, invested) THEN RDiv(profit, invested) ELSE daily_pnl
       ELSE UNCHANGED <<daily_profit_amount, daily_invested_amount, daily_pnl>>
    /\ daily_trades' = daily_trades + 1

(* update_pnl *)
update_pnl(trade_result) ==
    /\ IF trade_result.side = "sell" /\ RLt(Zero, trade_result.invested_amount)
       THEN LET profit == RAdd(daily_profit_amount, trade_result.profit_amount)
                invested == RAdd(daily_invested_amount, trade_result.invested_amount)
            IN  /\ daily_profit_amount' = profit
                /\ daily_invested_amount' = invested
                /\ daily_pnl' = IF RLt(Zero, invested) THEN RDiv(profit, invested) ELSE daily_pnl
       ELSE IF trade_result.side = "buy"
       THEN /\ daily_invested_amount' = RAdd(daily_invested_amount, trade_result.invested_amount)
            /\ UNCHANGED <<daily_profit_amount, daily_pnl>>
       ELSE UNCHANGED <<daily_profit_amount, daily_invested_amount, daily_pnl>>
    /\ daily_trades' = daily_trades + 1

(* faulty variant of reset_daily: the day's invested amount is carried over *)
reset_daily_keeps_invested ==
    /\ daily_pnl' = Zero
    /\ daily_trades' = 0
    /\ daily_invested_amount' = daily_invested_amount
    /\ daily_profit_amount' = Zero

(* reset_daily *)
reset_daily ==
    /\ daily_pnl' = Zero
    /\ daily_trades' = 0
    /\ daily_invested_amount' = Zero
    /\ daily_profit_amount' = Zero

(* check_stop_loss: positions always carry 'stop_loss', so the entry_price
   fallback of the source is never taken.  At or below the stop the loss rate
   for the log divides by position.get('entry_price', current_price), that is
   by current_price: at 0.0 the division raises and the handler returns
   False. *)
check_stop_loss(symbol, current_price) ==
    /\ symbol \in DOMAIN positions
    /\ RLe(current_price, positions[symbol].stop_loss)
    /\ current_price # Zero

----------------------------------------------------------------------------
(* OrderExecutor (trading_engine.py), real-trading branch                  *)

(* faulty variant of the order test: anything but an exception counts as an
   order, so a None reply is booked as a fill *)
OrderAcceptedUnlessRaised(outcome) == outcome # "raises"

(* `if result and 'uuid' in result`: the exchange returned an order *)
OrderAccepted(outcome) == outcome = "filled"

(* an operation that stops before any order is sent, or whose order failed *)
Declined(sent) == [sent |-> sent, results |-> <<>>, positions |-> positions]

(* dict assignment positions[symbol] = p *)
SetPosition(pos, symbol, p) ==
    [s \in (DOMAIN pos) \cup {symbol} |-> IF s = symbol THEN p ELSE pos[s]]

(* faulty variant of the removal: the entry stays, emptied to quantity 0 *)
RemovePositionLeavesEmpty(pos, symbol) ==
    [s \in DOMAIN pos |-> IF s = symbol THEN [pos[s] EXCEPT !.quantity = Zero] ELSE pos[s]]

(* faulty variant of the removal: the entry is not deleted at all *)
RemovePositionForgotten(pos, symbol) == pos

(* del positions[symbol] *)
RemovePosition(pos, symbol) ==
    [s \in (DOMAIN pos) \ {symbol} |-> pos[s]]

(* faulty variant of the merge: the position is written as if it were new,
   with the time and the order id of the latest buy only *)
MergedPositionRestarted(existing, quantity, position_size, uuid, now) ==
    LET new_total_quantity == RAdd(existing.quantity, quantity)
        new_total_invested == RAdd(existing.total_invested, position_size)
        new_avg_price == RDiv(new_total_invested, new_total_quantity)
    IN  [avg_price |-> new_avg_price,
         quantity |-> new_total_quantity,
         total_invested |-> new_total_invested,
         entry_time |-> now,
         last_buy_time |-> now,
         stop_loss |-> RMul(new_avg_price, RSub(R(1), stop_loss_rate)),
         buy_orders |-> <<uuid>>]

(* faulty variant of the merge: the stop-loss price of the first buy is kept *)
MergedPositionKeepsStop(existing, quantity, position_size, uuid, now) ==
    LET new_total_quantity == RAdd(existing.quantity, quantity)
        new_total_invested == RAdd(existing.total_invested, position_size)
    IN  [avg_price |-> RDiv(new_total_invested, new_total_quantity),
         quantity |-> new_total_quantity,
         total_invested |-> new_total_invested,
         entry_time |-> existing.entry_time,
         last_buy_time |-> now,
         stop_loss |-> existing.stop_loss,
         buy_orders |-> Append(existing.buy_orders, uuid)]

(* execute_buy_order, "merge into the existing position" branch *)
MergedPosition(existing, quantity, position_size, uuid, now) ==
    LET new_total_quantity == RAdd(existing.quantity, quantity)
        new_total_invested == RAdd(existing.total_invested, position_size)
        new_avg_price == RDiv(new_total_invested, new_total_quantity)
    IN  [avg_price |-> new_avg_price,
         quantity |-> new_total_quantity,
         total_invested |-> new_total_invested,
         entry_time |-> existing.entry_time,
         last_buy_time |-> now,
         stop_loss |-> RMul(new_avg_price, RSub(R(1), stop_loss_rate)),
         buy_orders |-> Append(existing.buy_orders, uuid)]

(* execute_buy_order, "new position" branch *)
NewPosition(current_price, quantity, position_size, uuid, now) ==
    [avg_price |-> current_price,
     quantity |-> quantity,
     total_invested |-> position_size,
     entry_time |-> now,
     last_buy_time |-> now,
     stop_loss |-> RMul(current_price, RSub(R(1), stop_loss_rate)),
     buy_orders |-> <<uuid>>]

(* faulty variant of execute_buy_order: the position size is not tested
   against min_trade_amount before the order *)
BuyPlanWithUnsized(symbol, confidence, price, balance_ok, krw_balance, outcome, uuid) ==
    IF price = 0 \/ ~balance_ok THEN Declined(<<>>)
    ELSE IF krw_balance < min_trade_amount THEN Declined(<<>>)
    ELSE
    LET position_size == calculate_position_size(R(krw_balance), confidence)
    IN
        LET fee == calculate_fees(position_size)
            actual_buy_amount == RSub(position_size, fee)
            quantity == RDiv(actual_buy_amount, R(price))
            order == [symbol |-> symbol, side |-> "bid", volume |-> position_size,
                      outcome |-> outcome]
            now == order_seq + 1
            trade_result == [id |-> uuid, symbol |-> symbol, side |-> "buy",
                             quantity |-> quantity, price |-> R(price),
                             amount |-> position_size, fee |-> fee,
                             invested_amount |-> position_size,
                             profit_amount |-> Zero, profit_rate |-> Zero]
        IN  IF ~OrderAccepted(outcome) THEN Declined(<<order>>)
            ELSE IF /\ symbol \in DOMAIN positions
                    /\ RAdd(positions[symbol].quantity, quantity) = Zero
            THEN Declined(<<order>>)
            ELSE [sent |-> <<order>>,
                  results |-> <<trade_result>>,
                  positions |->
                     IF symbol \in DOMAIN positions
                     THEN SetPosition(positions, symbol,
                              MergedPosition(positions[symbol], quantity, position_size, uuid, now))
                     ELSE SetPosition(positions, symbol,
                              NewPosition(R(price), quantity, position_size, uuid, now))]

(* execute_buy_order up to, not including, update_pnl: the orders sent, the
   TradeResult returned (none: <<>>) and the positions map afterwards.
   balance_ok = FALSE: get_balance("KRW") raised; uuid: result['uuid'] of the
   order the exchange returns.  A merge that brings the quantity to 0 raises
   ZeroDivisionError at new_avg_price, after the order and before the ledger
   is written; the handler of execute_buy_order returns None. *)
BuyPlanOf(symbol, confidence, price, balance_ok, krw_balance, outcome, uuid) ==
    IF price = 0 \/ ~balance_ok THEN Declined(<<>>)
    ELSE IF RLt(krw_balance, R(min_trade_amount)) THEN Declined(<<>>)
    ELSE
    LET position_size == calculate_position_size(krw_balance, confidence)
    IN  IF RLt(position_size, R(min_trade_amount)) THEN Declined(<<>>)
        ELSE
        LET fee == calculate_fees(position_size)
            actual_buy_amount == RSub(position_size, fee)
            quantity == RDiv(actual_buy_amount, R(price))
            order == [symbol |-> symbol, side |-> "bid", volume |-> position_size,
                      outcome |-> outcome]
            now == order_seq + 1
            trade_result == [id |-> uuid, symbol |-> symbol, side |-> "buy",
                             quantity |-> quantity, price |-> R(price),
                             amount |-> position_size, fee |-> fee,
                             invested_amount |-> position_size,
                             profit_amount |-> Zero, profit_rate |-> Zero]
        IN  IF ~OrderAccepted(outcome) THEN Declined(<<order>>)
            ELSE IF /\ symbol \in DOMAIN positions
                    /\ RAdd(positions[symbol].quantity, quantity) = Zero
            THEN Declined(<<order>>)
            ELSE [sent |-> <<order>>,
                  results |-> <<trade_result>>,
                  positions |->
                     IF symbol \in DOMAIN positions
                     THEN SetPosition(positions, symbol,
                              MergedPosition(positions[symbol], quantity, position_size, uuid, now))
                     ELSE SetPosition(positions, symbol,
                              NewPosition(R(price), quantity, position_size, uuid, now))]

(* execute_buy_order with a KRW balance of whole won *)
BuyPlanWith(symbol, confidence, price, balance_ok, krw_balance, outcome, uuid) ==
    BuyPlanOf(symbol, confidence, price, balance_ok, R(krw_balance), outcome, uuid)

(* execute_buy_order with an exchange that numbers its orders one after the
   other *)
BuyPlan(symbol, confidence, price, balance_ok, krw_balance, outcome) ==
    BuyPlanWith(symbol, confidence, price, balance_ok, krw_balance, outcome, order_seq + 1)

(* faulty variant of the cost basis of a sale: always the whole position's *)
ProportionalInvestedWhole(actual_invested, coin_balance, actual_quantity) == actual_invested

(* the cost basis execute_sell_order attributes to the sale *)
ProportionalInvested(actual_invested, coin_balance, actual_quantity) ==
    IF RLt(coin_balance, actual_quantity)
    THEN RMul(actual_invested, RDiv(coin_balance, actual_quantity))
    ELSE actual_invested

(* position.get('invested_amount', 0): positions are written with the key
   'total_invested' and never with 'invested_amount' *)
PositionInvestedAmount(position) == Zero

(* faulty variant of the limit on the rate: a rate of exactly 10 is replaced
   as well *)
ClampedRateFromTenfold(profit_rate, current_price, avg_price) ==
    IF RLe(R(10), RAbs(profit_rate))
    THEN RDiv(RSub(current_price, avg_price), avg_price)
    ELSE profit_rate

(* execute_sell_order: `if abs(profit_rate) > 10:` the rate is replaced by
   the relative change of the price against position['avg_price'] *)
ClampedRate(profit_rate, current_price, avg_price) ==
    IF RLt(R(10), RAbs(profit_rate))
    THEN RDiv(RSub(current_price, avg_price), avg_price)
    ELSE profit_rate

(* faulty variant of execute_sell_order: the ledger is looked at only after
   the order for the exchange's holding has been sent *)
SellPlanOrdersFirst(symbol, price, coin_balance, outcome) ==
    IF price = 0 THEN Declined(<<>>)
    ELSE IF symbol \notin DOMAIN positions
         THEN Declined(<<[symbol |-> symbol, side |-> "ask", volume |-> coin_balance,
                          outcome |-> outcome]>>)
    ELSE IF RLe(coin_balance, Zero) THEN Declined(<<>>)
    ELSE
    LET position == positions[symbol]
        invested_amount == PositionInvestedAmount(position)
        order == [symbol |-> symbol, side |-> "ask", volume |-> coin_balance,
                  outcome |-> outcome]
        current_price == R(price)
        gross_amount == RMul(coin_balance, current_price)
        fee == calculate_fees(gross_amount)
        net_amount == RSub(gross_amount, fee)
        proportional_invested ==
            ProportionalInvested(position.total_invested, coin_balance, position.quantity)
        profit_amount == RSub(net_amount, proportional_invested)
        rate0 == IF RLt(Zero, proportional_invested)
                 THEN RDiv(profit_amount, proportional_invested) ELSE Zero
        profit_rate == ClampedRate(rate0, current_price, position.avg_price)
        trade_result == [id |-> order_seq + 1, symbol |-> symbol, side |-> "sell",
                         quantity |-> coin_balance, price |-> current_price,
                         amount |-> gross_amount, fee |-> fee,
                         invested_amount |-> invested_amount,
                         profit_amount |-> profit_amount, profit_rate |-> profit_rate]
    IN  IF ~OrderAccepted(outcome) THEN Declined(<<order>>)
        ELSE [sent |-> <<order>>,
              results |-> <<trade_result>>,
              positions |-> RemovePosition(positions, symbol)]

(* execute_sell_order up to, not including, update_pnl.
   coin_balance: the holding the exchange reports for the coin. *)
SellPlan(symbol, price, coin_balance, outcome) ==
    IF price = 0 THEN Declined(<<>>)
    ELSE IF symbol \notin DOMAIN positions THEN Declined(<<>>)
    ELSE IF RLe(coin_balance, Zero) THEN Declined(<<>>)
    ELSE
    LET position == positions[symbol]
        invested_amount == PositionInvestedAmount(position)
        order == [symbol |-> symbol, side |-> "ask", volume |-> coin_balance,
                  outcome |-> outcome]
        current_price == R(price)
        gross_amount == RMul(coin_balance, current_price)
        fee == calculate_fees(gross_amount)
        net_amount == RSub(gross_amount, fee)
        proportional_invested ==
            ProportionalInvested(position.total_invested, coin_balance, position.quantity)
        profit_amount == RSub(net_amount, proportional_invested)
        rate0 == IF RLt(Zero, proportional_invested)
                 THEN RDiv(profit_amount, proportional_invested) ELSE Zero
        profit_rate == ClampedRate(rate0, current_price, position.avg_price)
        trade_result == [id |-> order_seq + 1, symbol |-> symbol, side |-> "sell",
                         quantity |-> coin_balance, price |-> current_price,
                         amount |-> gross_amount, fee |-> fee,
                         invested_amount |-> invested_amount,
                         profit_amount |-> profit_amount, profit_rate |-> profit_rate]
    IN  IF ~OrderAccepted(outcome) THEN Declined(<<order>>)
        ELSE [sent |-> <<order>>,
              results |-> <<trade_result>>,
              positions |-> RemovePosition(positions, symbol)]

(* number of orders of a batch the exchange filled *)
RECURSIVE Fills(_)
Fills(sent) ==
    IF sent = <<>> THEN 0
    ELSE (IF sent[1].outcome = "filled" THEN 1 ELSE 0) + Fills(Tail(sent))

(* the holding the exchange lists for a coin in emergency_sell_all *)
ListedBalance(symbol) ==
    IF symbol \in DOMAIN positions THEN positions[symbol].quantity ELSE R(1)

(* the loop of emergency_sell_all over the balances the exchange lists, from
   the i-th market on.  price[s] = 0: get_current_price returned None, and
   the arithmetic on it raises after the order was sent. *)
RECURSIVE EmergencyFrom(_, _, _, _, _)
EmergencyFrom(i, held, price, outcome, seq) ==
    IF i > Len(target_coins) THEN [sent |-> <<>>, results |-> <<>>]
    ELSE
    LET symbol == target_coins[i]
    IN  IF symbol \notin held THEN EmergencyFrom(i + 1, held, price, outcome, seq)
        ELSE
        LET balance == ListedBalance(symbol)
            order == [symbol |-> symbol, side |-> "ask", volume |-> balance,
                      outcome |-> outcome[symbol]]
            sell_amount == RMul(balance, R(price[symbol]))
            fee == calculate_fees(sell_amount)
            invested_amount == IF symbol \in DOMAIN positions THEN sell_amount ELSE Zero
            profit == RSub(RSub(sell_amount, fee), invested_amount)
            trade_result == [id |-> seq + 1, symbol |-> symbol, side |-> "sell",
                             quantity |-> balance, price |-> R(price[symbol]),
                             amount |-> sell_amount, fee |-> fee,
                             invested_amount |-> invested_amount,
                             profit_amount |-> profit,
                             profit_rate |-> IF RLt(Zero, invested_amount)
                                             THEN RDiv(profit, invested_amount) ELSE Zero]
            rest == EmergencyFrom(i + 1, held, price, outcome,
                                  IF outcome[symbol] = "filled" THEN seq + 1 ELSE seq)
        IN  [sent |-> <<order>> \o rest.sent,
             results |-> (IF OrderAccepted(outcome[symbol]) /\ price[symbol] # 0
                          THEN <<trade_result>> ELSE <<>>) \o rest.results]

NoPositions == [s \in {} |-> Zero]

(* emergency_sell_all.  balances_ok = FALSE: get_balances() raised. *)
EmergencyPlan(balances_ok, held, price, outcome) ==
    IF ~balances_ok THEN Declined(<<>>)
    ELSE LET r == EmergencyFrom(1, held, price, outcome, order_seq)
         IN  [sent |-> r.sent, results |-> r.results, positions |-> NoPositions]

----------------------------------------------------------------------------
(* The engine driven one operation at a time.                              *)

NoLimit == <<FALSE, "">>

(* the three worker threads _start_threads creates, one set per start() *)
Roles == {"trading", "claude", "telegram"}
Workers == Roles \X (1..MaxStarts)

(* a thread start() has not created yet.
   pc: where the thread is; i: index of the symbol the trading pass is at;
   pending: the TradeResult of a fill between the ledger update and update_pnl;
   sweep: the symbols _check_stop_losses has still to look at;
   limit_reached: the local of that name of _trading_loop;
   ordered: this thread has sent an order in the pass it is in *)
NotStarted ==
    [pc |-> "idle", i |-> 0, pending |-> <<>>, sweep |-> <<>>,
     limit_reached |-> FALSE, ordered |-> FALSE]

(* what an operation leaves in `last` *)
Done(op, symbol, position, sent, results, limit) ==
    [op |-> op, symbol |-> symbol, position |-> position, sent |-> sent,
     results |-> results, limit |-> limit]

(* positions.get(symbol) as a list of at most one position *)
PositionOf(symbol) ==
    IF symbol \in DOMAIN positions THEN <<positions[symbol]>> ELSE <<>>

(* the cost basis a TradeResult realizes: what a buy invested, and for a sell
   the part of its proceeds that is not profit *)
TradeBasis(trade_result) ==
    IF trade_result.side = "buy" THEN trade_result.invested_amount
    ELSE RSub(RSub(trade_result.amount, trade_result.fee), trade_result.profit_amount)

RECURSIVE SumProfit(_)
SumProfit(results) ==
    IF results = <<>> THEN Zero
    ELSE RAdd(results[1].profit_amount, SumProfit(Tail(results)))

RECURSIVE SumBasis(_)
SumBasis(results) ==
    IF results = <<>> THEN Zero
    ELSE RAdd(TradeBasis(results[1]), SumBasis(Tail(results)))

Init ==
    /\ balances = NoWallet
    /\ trade_history = <<>>
    /\ include_fees \in BOOLEAN
    /\ positions = NoPositions
    /\ daily_pnl = Zero
    /\ daily_trades = 0
    /\ daily_invested_amount = Zero
    /\ daily_profit_amount = Zero
    /\ order_seq = 0
    /\ last = Done("init", "", <<>>, <<>>, <<>>, NoLimit)
    /\ realized_profit = Zero
    /\ realized_basis = Zero
    /\ is_running = FALSE
    /\ is_paused = FALSE
    /\ starts = 0
    /\ threads = [w \in Workers |-> NotStarted]

(* the effects shared by the three order operations; book: the operation
   passes its TradeResult to update_pnl *)
CommitWithin(max_orders, op, symbol, plan, book) ==
    /\ order_seq + Fills(plan.sent) <= max_orders
    /\ positions' = plan.positions
    /\ IF book /\ plan.results # <<>>
       THEN update_pnl(plan.results[1])
       ELSE UNCHANGED riskVars
    /\ order_seq' = order_seq + Fills(plan.sent)
    /\ last' = Done(op, symbol, PositionOf(symbol), plan.sent, plan.results, NoLimit)
    /\ realized_profit' = RAdd(realized_profit, SumProfit(plan.results))
    /\ realized_basis' = RAdd(realized_basis, SumBasis(plan.results))
    /\ UNCHANGED <<walletVars, include_fees, botVars>>

Commit(op, symbol, plan, book) == CommitWithin(MaxOrders, op, symbol, plan, book)

(* Inputs the code does not read on the path it takes are fixed, so that
   each path of an operation is generated once. *)
ExecuteBuy ==
    \E symbol \in Symbols :
        \/ \E price \in SignalPrices, balance_ok \in BOOLEAN, krw_balance \in KrwBalances :
              /\ price = 0 \/ ~balance_ok \/ krw_balance < min_trade_amount
              /\ price = 0 => balance_ok /\ krw_balance = initial_amount
              /\ ~balance_ok => krw_balance = initial_amount
              /\ Commit("execute_buy_order", symbol,
                        BuyPlan(symbol, R(1), price, balance_ok, krw_balance, "none"), TRUE)
        \/ \E confidence \in Confidences, price \in SignalPrices \ {0},
              krw_balance \in KrwBalances, outcome \in OrderOutcomes :
              /\ krw_balance >= min_trade_amount
              /\ Commit("execute_buy_order", symbol,
                        BuyPlan(symbol, confidence, price, TRUE, krw_balance, outcome), TRUE)

ExecuteSell ==
    \E symbol \in Symbols :
        \/ /\ symbol \notin DOMAIN positions
           /\ \E price \in SignalPrices :
                 Commit("execute_sell_order", symbol, SellPlan(symbol, price, R(1), "filled"), TRUE)
        \/ /\ symbol \in DOMAIN positions
           /\ \E price \in SignalPrices, factor \in HeldFactors, outcome \in OrderOutcomes :
                 /\ price = 0 \/ factor = Zero => outcome = "none"
                 /\ price = 0 => factor = R(1)
                 /\ Commit("execute_sell_order", symbol,
                           SellPlan(symbol, price, RMul(factor, positions[symbol].quantity),
                                    outcome), TRUE)

EmergencySellAll ==
    \/ Commit("emergency_sell_all", "",
              EmergencyPlan(FALSE, {}, [s \in Symbols |-> 0], [s \in Symbols |-> "none"]), FALSE)
    \/ \E held \in SUBSET Symbols, price \in [Symbols -> MarketPrices],
          outcome \in [Symbols -> OrderOutcomes] :
          /\ \A s \in Symbols : s \notin held => price[s] = 0 /\ outcome[s] = "none"
          /\ \A s \in held : outcome[s] # "filled" => price[s] # 0
          /\ Commit("emergency_sell_all", "", EmergencyPlan(TRUE, held, price, outcome), FALSE)

ResetDaily ==
    /\ reset_daily
    /\ last' = Done("reset_daily", "", <<>>, <<>>, <<>>, NoLimit)
    /\ realized_profit' = Zero
    /\ realized_basis' = Zero
    /\ UNCHANGED <<walletVars, include_fees, positions, order_seq, botVars>>

(* faulty variant of the call of check_daily_limits: the check counts as a
   trade of the day *)
CheckDailyLimitsCounted ==
    /\ last' = Done("check_daily_limits", "", <<>>, <<>>, <<>>, check_daily_limits)
    /\ daily_trades' = daily_trades + 1
    /\ daily_trades < MaxBookedTrades
    /\ UNCHANGED <<walletVars, include_fees, positions, daily_pnl, daily_invested_amount,
                   daily_profit_amount, order_seq, realizedVars, botVars>>

CheckDailyLimits ==
    /\ last' = Done("check_daily_limits", "", <<>>, <<>>, <<>>, check_daily_limits)
    /\ UNCHANGED <<walletVars, include_fees, positions, riskVars, order_seq, realizedVars, botVars>>

Next ==
    \/ ExecuteBuy
    \/ ExecuteSell
    \/ EmergencySellAll
    \/ ResetDaily
    \/ CheckDailyLimits

Spec == Init /\ [][Next]_vars

----------------------------------------------------------------------------
(* The engine with an exchange that may answer a buy with an order it has
   answered with before                                                    *)

(* the order ids the ledger keeps for a symbol under 'buy_orders' *)
AppliedOrderIds(symbol) ==
    IF symbol \in DOMAIN positions
    THEN {positions[symbol].buy_orders[k] : k \in 1..Len(positions[symbol].buy_orders)}
    ELSE {}

(* execute_buy_order whose buy_market_order returns an order dict carrying a
   uuid that an earlier buy of the symbol was answered with *)
ExecuteBuyRepeated ==
    \E symbol \in Symbols, price \in SignalPrices \ {0} :
        \E uuid \in AppliedOrderIds(symbol) :
            Commit("execute_buy_order", symbol,
                   BuyPlanWith(symbol, R(1), price, TRUE, initial_amount, "filled", uuid), TRUE)

NextRepeated ==
    \/ Next
    \/ ExecuteBuyRepeated

SpecRepeated == Init /\ [][NextRepeated]_vars

----------------------------------------------------------------------------
(* The engine with check_stop_loss asked about the positions               *)

(* check_stop_loss(symbol, current_price) with a price the exchange quotes *)
CheckStopLoss ==
    \E symbol \in Symbols, probe \in StopProbes :
        LET current_price == IF symbol \in DOMAIN positions
                             THEN RAdd(positions[symbol].stop_loss, probe)
                             ELSE RAdd(R(1000), probe)
        IN  /\ last' = Done("check_stop_loss", symbol, PositionOf(symbol), <<>>,
                            <<[price |-> current_price,
                               hit |-> check_stop_loss(symbol, current_price)]>>,
                            NoLimit)
            /\ UNCHANGED <<walletVars, include_fees, positions, riskVars, order_seq, realizedVars, botVars>>

NextStopLoss ==
    \/ Next
    \/ CheckStopLoss

SpecStopLoss == Init /\ [][NextStopLoss]_vars

----------------------------------------------------------------------------
(* The engine with buys at 1000 and sells at 1000 or after a surge         *)

(* execute_buy_order at 1000 *)
BuyAtBase ==
    \E symbol \in Symbols, outcome \in OrderOutcomes :
        Commit("execute_buy_order", symbol,
               BuyPlan(symbol, R(1), 1000, TRUE, initial_amount, outcome), TRUE)

(* execute_sell_order of a held symbol at one of SurgePrices *)
SellAtSurge ==
    \E symbol \in DOMAIN positions, price \in SurgePrices,
       factor \in HeldFactors \ {Zero}, outcome \in OrderOutcomes :
        Commit("execute_sell_order", symbol,
               SellPlan(symbol, price, RMul(factor, positions[symbol].quantity), outcome), TRUE)

NextSurge ==
    \/ BuyAtBase
    \/ SellAtSurge

SpecSurge == Init /\ [][NextSurge]_vars

----------------------------------------------------------------------------
(* The engine given buy signals whose price is not a price                 *)

(* execute_buy_order for a signal with a negative price, the balance at hand *)
ExecuteBuyMispriced ==
    \E symbol \in Symbols, price \in MispricedSignals, outcome \in OrderOutcomes :
        Commit("execute_buy_order", symbol,
               BuyPlan(symbol, R(1), price, TRUE, initial_amount, outcome), TRUE)

NextMispriced ==
    \/ BuyAtBase
    \/ ExecuteBuyMispriced
    \/ ResetDaily
    \/ CheckDailyLimits

SpecMispriced == Init /\ [][NextMispriced]_vars

----------------------------------------------------------------------------
(* The RiskManager alone: trades booked through update_pnl                 *)

InitRisk == Init /\ include_fees

(* update_pnl(trade_result) called with a TradeResult of which it reads side,
   invested_amount and profit_amount; a buy carries no profit *)
UpdatePnl ==
    \E side \in {"buy", "sell"}, invested_amount \in BookedInvested,
       profit_amount \in BookedProfits :
        LET trade_result == [side |-> side, invested_amount |-> invested_amount,
                             profit_amount |-> profit_amount]
        IN  /\ daily_trades < MaxBookedTrades
            /\ side = "buy" => invested_amount # Zero
            /\ (side = "buy" \/ invested_amount = Zero) => profit_amount = Zero
            /\ RLe(RAdd(daily_invested_amount, invested_amount), R(MaxBookedInvested))
            /\ update_pnl(trade_result)
            /\ last' = Done("update_pnl", "", <<>>, <<>>, <<trade_result>>, NoLimit)
            /\ UNCHANGED <<walletVars, include_fees, positions, order_seq, realizedVars, botVars>>

NextRisk ==
    \/ UpdatePnl
    \/ ResetDaily
    \/ CheckDailyLimits

SpecRisk == InitRisk /\ [][NextRisk]_vars

----------------------------------------------------------------------------
(* calculate_position_size on its own: the ledger and the day's profit it
   reads are drawn at the start, its arguments by the call               *)

(* a ledger of the first n markets, each bought once at 1000 without fees:
   200000 KRW for the first two, 140000 KRW from the third on *)
LedgerOf(n) ==
    [s \in {Markets[k] : k \in 1..n} |->
        LET k == CHOOSE j \in 1..n : Markets[j] = s
            position_size == IF k <= 2 THEN R(200000) ELSE R(140000)
        IN  NewPosition(R(1000), RDiv(position_size, R(1000)), position_size, k, k)]

InitSizing ==
    /\ balances = NoWallet
    /\ trade_history = <<>>
    /\ include_fees = FALSE
    /\ \E n \in 0..max_positions : positions = LedgerOf(n)
    /\ daily_pnl = Zero
    /\ daily_trades = 0
    /\ daily_invested_amount = Zero
    /\ daily_profit_amount \in SizingProfits
    /\ order_seq = 0
    /\ last = Done("init", "", <<>>, <<>>, <<>>, NoLimit)
    /\ realized_profit = Zero
    /\ realized_basis = Zero
    /\ is_running = FALSE
    /\ is_paused = FALSE
    /\ starts = 0
    /\ threads = [w \in Workers |-> NotStarted]

(* calculate_position_size(balance, confidence, symbol) *)
SizePosition ==
    \E balance \in SizingBalances, confidence \in SizingConfidences :
        /\ last' = Done("calculate_position_size", "", <<>>, <<>>,
                        <<[balance |-> R(balance), confidence |-> confidence,
                           size |-> calculate_position_size(R(balance), confidence)]>>,
                        NoLimit)
        /\ UNCHANGED <<walletVars, include_fees, positions, riskVars, order_seq, realizedVars, botVars>>

NextSizing == SizePosition

SpecSizing == InitSizing /\ [][NextSizing]_vars

----------------------------------------------------------------------------
(* The engine buying with balances and confidences that size to nothing    *)

(* execute_buy_order(signal) with the balance the exchange reports *)
ExecuteBuyOf(symbol, confidence, price, krw_balance, outcome) ==
    Commit("execute_buy_order", symbol,
           BuyPlan(symbol, confidence, price, TRUE, krw_balance, outcome), TRUE)

(* the ledger of the day before: one, four or five positions *)
InitSized ==
    /\ InitSizing
    /\ Cardinality(DOMAIN positions) \in {1, max_positions - 1, max_positions}
    /\ daily_profit_amount = Zero

(* buys at 1000 over the six markets; markets not held are taken up in list
   order *)
BuySized ==
    \E k \in 1..Len(Markets), confidence \in SizedConfidences,
       krw_balance \in SizedBalances, outcome \in {"filled", "none"} :
        /\ \A j \in 1..(k - 1) : Markets[j] \in DOMAIN positions \/ Markets[k] \in DOMAIN positions
        /\ ExecuteBuyOf(Markets[k], confidence, 1000, krw_balance, outcome)

NextSized == BuySized

SpecSized == InitSized /\ [][NextSized]_vars

----------------------------------------------------------------------------
(* The engine trading six markets: enough to fill the ledger                *)

InitMarkets == Init /\ include_fees

(* execute_buy_order for a market at 1000 with the full balance at hand and
   the order filled or not; markets not held are taken up in list order, as
   the pass over target_coins meets them *)
BuyMarket ==
    \E k \in 1..Len(Markets), outcome \in {"filled", "none"} :
        /\ \A j \in 1..(k - 1) : Markets[j] \in DOMAIN positions \/ Markets[k] \in DOMAIN positions
        /\ CommitWithin(MaxMarketOrders, "execute_buy_order", Markets[k],
                        BuyPlan(Markets[k], R(1), 1000, TRUE, initial_amount, outcome), TRUE)

(* execute_sell_order for a held market, the exchange holding what the
   ledger says *)
SellMarket ==
    \E symbol \in DOMAIN positions :
        CommitWithin(MaxMarketOrders, "execute_sell_order", symbol,
                     SellPlan(symbol, 1000, positions[symbol].quantity, "filled"), TRUE)

NextMarkets ==
    \/ BuyMarket
    \/ SellMarket

SpecMarkets == InitMarkets /\ [][NextMarkets]_vars

----------------------------------------------------------------------------
(* TradingBot (trading_bot.py): start/stop/pause and the worker threads    *)

TradingWorkers == {w \in Workers : w[1] = "trading"}

InitBot ==
    /\ balances = NoWallet
    /\ trade_history = <<>>
    /\ include_fees = TRUE
    /\ positions = NoPositions
    /\ daily_pnl = Zero
    /\ \E b \in BookedBefore :
          /\ daily_trades = b.trades
          /\ daily_invested_amount = b.invested
    /\ daily_profit_amount = Zero
    /\ order_seq = 0
    /\ last = Done("init", "", <<>>, <<>>, <<>>, NoLimit)
    /\ realized_profit = Zero
    /\ realized_basis = Zero
    /\ is_running = FALSE
    /\ is_paused = FALSE
    /\ starts = 0
    /\ threads = [w \in Workers |-> NotStarted]

(* start() while fewer than `limit` starts have been made; ok:
   _test_api_connection and _validate_fund_safety pass.  _start_threads
   makes three new threads and keeps no hold on those of an earlier start *)
StartWithin(limit) ==
    \E ok \in BOOLEAN :
        IF is_running \/ ~ok
        THEN UNCHANGED vars
        ELSE /\ starts < limit
             /\ is_running' = TRUE
             /\ is_paused' = FALSE
             /\ starts' = starts + 1
             /\ threads' = [w \in DOMAIN threads |->
                              IF w[2] = starts + 1
                              THEN [NotStarted EXCEPT
                                       !.pc = IF w[1] = "trading" THEN "head" ELSE "sleep"]
                              ELSE threads[w]]
             /\ UNCHANGED <<walletVars, include_fees, positions, riskVars, order_seq, last, realizedVars>>

Start == StartWithin(MaxStarts)

(* stop() called from outside the worker threads: the joins of
   _stop_threads wait at most 10 s each and return *)
Stop ==
    IF ~is_running
    THEN UNCHANGED vars
    ELSE /\ is_running' = FALSE
         /\ UNCHANGED <<walletVars, include_fees, positions, riskVars, order_seq, last, realizedVars,
                        is_paused, starts, threads>>

(* pause_trading() *)
PauseTrading ==
    /\ is_paused' = TRUE
    /\ UNCHANGED <<walletVars, include_fees, positions, riskVars, order_seq, last, realizedVars,
                   is_running, starts, threads>>

(* resume_trading() *)
ResumeTrading ==
    /\ is_paused' = FALSE
    /\ UNCHANGED <<walletVars, include_fees, positions, riskVars, order_seq, last, realizedVars,
                   is_running, starts, threads>>

(* faulty variant of the branch on limit_reached: the pass goes on *)
AfterCheckIgnored(limit_reached) == "signals"

(* _trading_loop: `if limit_reached: ... self.stop(); break`, else on to
   _process_trading_signals *)
AfterCheck(limit_reached) == IF limit_reached THEN "stop" ELSE "signals"

(* _trading_loop from the `while self.is_running` test to the limit check.
   due: schedule.run_pending() runs reset_daily; error: it raises, the
   handler logs, sleeps 60 s and the loop goes round *)
TradingHead(w) ==
    /\ threads[w].pc = "head"
    /\ \E due \in BOOLEAN, error \in BOOLEAN :
          /\ (~is_running \/ error) => ~due
          /\ ~is_running => ~error
          /\ IF ~is_running
             THEN /\ threads' = [threads EXCEPT ![w].pc = "done"]
                  /\ UNCHANGED riskVars
             ELSE IF error
             THEN UNCHANGED <<threads, riskVars>>
             ELSE /\ IF due THEN reset_daily ELSE UNCHANGED riskVars
                  /\ IF is_paused
                     THEN UNCHANGED threads
                     ELSE LET limit == IF due THEN <<FALSE, "normal">> ELSE check_daily_limits
                          IN  threads' = [threads EXCEPT ![w] =
                                  [@ EXCEPT !.pc = AfterCheck(limit[1]),
                                            !.i = IF AfterCheck(limit[1]) = "signals" THEN 1 ELSE 0,
                                            !.limit_reached = limit[1],
                                            !.ordered = FALSE]]
    /\ UNCHANGED <<walletVars, include_fees, positions, order_seq, last, realizedVars,
                   is_running, is_paused, starts>>

(* self.stop() called by the trading loop.  _stop_threads joins
   self.trading_thread: for the thread of the latest start() that is the
   caller itself, join raises RuntimeError, the loop's handler catches it,
   sleeps 60 s and the loop goes round; a thread of an earlier start() joins
   the newer threads with a timeout, stop() returns and the loop breaks *)
TradingStop(w) ==
    /\ threads[w].pc = "stop"
    /\ IF ~is_running
       THEN /\ threads' = [threads EXCEPT ![w].pc = "done"]
            /\ UNCHANGED is_running
       ELSE /\ is_running' = FALSE
            /\ threads' = [threads EXCEPT ![w].pc = IF w[2] = starts THEN "head" ELSE "done"]
    /\ UNCHANGED <<walletVars, include_fees, positions, riskVars, order_seq, last, realizedVars,
                   is_paused, starts>>

(* the thread after the symbol at index i of _process_trading_signals *)
AfterSymbol(t) ==
    IF t.i < Len(target_coins)
    THEN [t EXCEPT !.i = @ + 1]
    ELSE [t EXCEPT !.pc = "stops", !.i = 0]

(* an order operation of the executor run by thread w, up to and including
   its update of the ledger: on a fill the TradeResult waits for update_pnl,
   otherwise the thread goes on as `resume` *)
LedgerStep(w, plan, resume) ==
    /\ order_seq + Fills(plan.sent) <= MaxOrders
    /\ positions' = plan.positions
    /\ order_seq' = order_seq + Fills(plan.sent)
    /\ threads' = [threads EXCEPT ![w] =
                      IF plan.results # <<>>
                      THEN [@ EXCEPT !.pc = "book", !.pending = plan.results, !.ordered = TRUE]
                      ELSE [resume EXCEPT !.ordered = @ \/ plan.sent # <<>>]]
    /\ UNCHANGED <<walletVars, include_fees, riskVars, last, realizedVars, is_running, is_paused, starts>>

(* the end of a pass: sleep 10 s, then the loop test *)
PassOver(t) == [t EXCEPT !.pc = "head", !.ordered = FALSE]

(* _process_trading_signals for one symbol: analyze_symbol, then
   _execute_signal up to the executor's ledger update *)
TradingSignalOf(w, signals) ==
    /\ threads[w].pc = "signals"
    /\ LET symbol == target_coins[threads[w].i]
       IN  \E signal \in signals, price \in BotSignalPrices, outcome \in OrderOutcomes :
              LET plan == IF signal = "BUY"
                          THEN BuyPlan(symbol, R(1), price, TRUE, initial_amount, outcome)
                          ELSE IF signal = "SELL"
                          THEN SellPlan(symbol, price, ListedBalance(symbol), outcome)
                          ELSE Declined(<<>>)
              IN  /\ plan.sent = <<>> => outcome = "none"
                  /\ LedgerStep(w, plan, AfterSymbol(threads[w]))

TradingSignal(w) == TradingSignalOf(w, BotSignals)

(* the executor's update_pnl(trade_result) for the fill it has just put into
   the ledger, and the return into the pass *)
TradingBook(w) ==
    /\ threads[w].pc = "book"
    /\ update_pnl(threads[w].pending[1])
    /\ threads' = [threads EXCEPT ![w] =
                      IF @.i > 0
                      THEN [AfterSymbol(@) EXCEPT !.pc = IF @ = "book" THEN "signals" ELSE @,
                                                  !.pending = <<>>]
                      ELSE [@ EXCEPT !.pc = "sweep", !.sweep = Tail(@), !.pending = <<>>]]
    /\ UNCHANGED <<walletVars, include_fees, positions, order_seq, last, realizedVars,
                   is_running, is_paused, starts>>

(* positions a dict lists, in the order of target_coins *)
HeldSymbols == SelectSeq(target_coins, LAMBDA s : s \in DOMAIN positions)

(* _trading_loop: `if self.risk_manager.positions:` and the copy of the keys
   _check_stop_losses takes; with no position the pass ends and sleeps *)
TradingStops(w) ==
    /\ threads[w].pc = "stops"
    /\ threads' = [threads EXCEPT ![w] =
                      IF DOMAIN positions = {} THEN PassOver(@)
                      ELSE [@ EXCEPT !.pc = "sweep", !.sweep = HeldSymbols]]
    /\ UNCHANGED <<walletVars, include_fees, positions, riskVars, order_seq, last, realizedVars,
                   is_running, is_paused, starts>>

(* _check_stop_losses for one symbol of its copy: price lookup,
   check_stop_loss and execute_sell_order up to the ledger update; after the
   last symbol the pass ends and sleeps *)
TradingSweep(w) ==
    /\ threads[w].pc = "sweep"
    /\ IF threads[w].sweep = <<>>
       THEN /\ threads' = [threads EXCEPT ![w] = PassOver(@)]
            /\ UNCHANGED <<walletVars, include_fees, positions, riskVars, order_seq, last, realizedVars,
                           is_running, is_paused, starts>>
       ELSE LET symbol == Head(threads[w].sweep)
            IN  \E price \in BotMarketPrices, outcome \in OrderOutcomes :
                   LET triggered == price # 0 /\ check_stop_loss(symbol, R(price))
                       plan == IF triggered
                               THEN SellPlan(symbol, price, positions[symbol].quantity, outcome)
                               ELSE Declined(<<>>)
                   IN  /\ plan.sent = <<>> => outcome = "none"
                       /\ LedgerStep(w, plan, [threads[w] EXCEPT !.sweep = Tail(@)])

(* a fill is in the ledger and not yet in the daily counters *)
PendingFill == \E t \in Workers : threads[t].pending # <<>>

(* faulty variant of the two loops: `while True`, the flag is tested for
   the work only *)
WakeNeverExits(w, work) ==
    /\ threads[w].pc = "sleep"
    /\ threads' = [threads EXCEPT ![w].pc =
                      IF ~is_running \/ is_paused THEN "sleep" ELSE work]
    /\ UNCHANGED <<walletVars, include_fees, positions, riskVars, order_seq, last, realizedVars,
                   is_running, is_paused, starts>>

(* _claude_loop and _telegram_loop: the sleep, then `if not self.is_running
   or self.is_paused: continue` and the loop test *)
Wake(w, work) ==
    /\ threads[w].pc = "sleep"
    /\ threads' = [threads EXCEPT ![w].pc =
                      IF ~is_running THEN "done"
                      ELSE IF is_paused THEN "sleep" ELSE work]
    /\ UNCHANGED <<walletVars, include_fees, positions, riskVars, order_seq, last, realizedVars,
                   is_running, is_paused, starts>>

(* a worker reads the ledger or the daily counters and goes on to `next` *)
Read(w, at, next) ==
    /\ threads[w].pc = at
    /\ threads' = [threads EXCEPT ![w].pc = next]
    /\ UNCHANGED <<walletVars, include_fees, positions, riskVars, order_seq, last, realizedVars,
                   is_running, is_paused, starts>>

(* faulty variant of _claude_loop: the analysis acts on its own advice to
   reduce the positions and empties the ledger *)
ClaudeStepIntervenes(w) ==
    /\ w[1] = "claude"
    /\ \/ Wake(w, "analyze")
       \/ /\ threads[w].pc = "analyze"
          /\ threads' = [threads EXCEPT ![w].pc = "sleep"]
          /\ positions' = NoPositions
          /\ UNCHANGED <<walletVars, include_fees, riskVars, order_seq, last, realizedVars,
                         is_running, is_paused, starts>>

(* _claude_loop: _get_portfolio_market_data and analyze_market_condition
   read risk_manager.positions *)
ClaudeStep(w) ==
    /\ w[1] = "claude"
    /\ \/ Wake(w, "analyze")
       \/ Read(w, "analyze", "sleep")

(* _telegram_loop: _generate_status_report reads the positions, then
   daily_pnl, daily_trades and the number of positions *)
TelegramStep(w) ==
    /\ w[1] = "telegram"
    /\ \/ Wake(w, "report_positions")
       \/ Read(w, "report_positions", "report_counters")
       \/ Read(w, "report_counters", "sleep")

TradingStep(w) ==
    /\ w[1] = "trading"
    /\ \/ TradingHead(w)
       \/ TradingStop(w)
       \/ TradingSignal(w)
       \/ TradingBook(w)
       \/ TradingStops(w)
       \/ TradingSweep(w)

WorkerStep(w) == TradingStep(w) \/ ClaudeStep(w) \/ TelegramStep(w)

NextBot ==
    \/ Start
    \/ Stop
    \/ PauseTrading
    \/ ResumeTrading
    \/ \E w \in Workers : WorkerStep(w)

SpecBot == InitBot /\ [][NextBot]_vars

(* every thread that can take a step is scheduled again and again *)
SpecBotFair == SpecBot /\ \A w \in Workers : WF_vars(WorkerStep(w))

----------------------------------------------------------------------------
(* TradingBot started, stopped and started again                           *)

(* the threads of one start more than SpecBot follows; the reporting threads
   are started and left in their sleep *)
RestartWorkers == Roles \X (1..MaxStarts + 1)

InitRestart ==
    /\ balances = NoWallet
    /\ trade_history = <<>>
    /\ include_fees = TRUE
    /\ positions = NoPositions
    /\ daily_pnl = Zero
    /\ daily_trades = 0
    /\ daily_invested_amount = Zero
    /\ daily_profit_amount = Zero
    /\ order_seq = 0
    /\ last = Done("init", "", <<>>, <<>>, <<>>, NoLimit)
    /\ realized_profit = Zero
    /\ realized_basis = Zero
    /\ is_running = FALSE
    /\ is_paused = FALSE
    /\ starts = 0
    /\ threads = [w \in RestartWorkers |-> NotStarted]

Restart == StartWithin(MaxStarts + 1)

(* a trading pass in which the signal generator has nothing to sell *)
RestartStep(w) ==
    \/ /\ w[1] = "trading"
       /\ \/ TradingHead(w)
          \/ TradingSignalOf(w, {"none", "BUY"})
          \/ TradingBook(w)
          \/ TradingStops(w)
          \/ TradingSweep(w)
    \/ ClaudeStep(w)

NextRestart ==
    \/ Restart
    \/ Stop
    \/ \E w \in RestartWorkers : RestartStep(w)

SpecRestart == InitRestart /\ [][NextRestart]_vars

----------------------------------------------------------------------------
(* TradingBot with emergency_sell_all called from the web server's thread  *)

(* the thread of the request (web_server.py: emergency_sell) *)
EmergencyWorker == <<"emergency", 0>>

InitEmergency ==
    /\ balances = NoWallet
    /\ trade_history = <<>>
    /\ include_fees = TRUE
    /\ positions = NoPositions
    /\ daily_pnl = Zero
    /\ daily_trades = 0
    /\ daily_invested_amount = Zero
    /\ daily_profit_amount = Zero
    /\ order_seq = 0
    /\ last = Done("init", "", <<>>, <<>>, <<>>, NoLimit)
    /\ realized_profit = Zero
    /\ realized_basis = Zero
    /\ is_running = FALSE
    /\ is_paused = FALSE
    /\ starts = 0
    /\ threads = [w \in TradingWorkers \cup {EmergencyWorker} |-> NotStarted]

(* the coins emergency_sell_all has sold and not yet taken out of the ledger:
   the exchange holds none of them *)
EmergencySold ==
    IF threads[EmergencyWorker].pc # "selling" THEN {}
    ELSE {threads[EmergencyWorker].pending[k].symbol :
             k \in DOMAIN threads[EmergencyWorker].pending}

(* emergency_sell_all: get_balances(), the list of the coins held.
   balances_ok = FALSE: it raised, the outer handler logs and the call
   returns with the ledger as it is *)
EmergencyBalances ==
    /\ threads[EmergencyWorker].pc = "idle"
    /\ \E balances_ok \in BOOLEAN :
          threads' = [threads EXCEPT ![EmergencyWorker] =
                         IF balances_ok
                         THEN [@ EXCEPT !.pc = "selling",
                                        !.sweep = [k \in DOMAIN HeldSymbols |->
                                                      [symbol |-> HeldSymbols[k],
                                                       balance |-> positions[HeldSymbols[k]].quantity]]]
                         ELSE [@ EXCEPT !.pc = "done"]]
    /\ UNCHANGED <<walletVars, include_fees, positions, riskVars, order_seq, last, realizedVars,
                   is_running, is_paused, starts>>

(* emergency_sell_all: one turn of the loop over the balances.  The exchange
   fills the order only if it still holds the coin; price = 0:
   get_current_price returned None and the arithmetic on it raises after the
   order was sent *)
EmergencySell ==
    /\ threads[EmergencyWorker].pc = "selling"
    /\ threads[EmergencyWorker].sweep # <<>>
    /\ LET held == Head(threads[EmergencyWorker].sweep)
           symbol == held.symbol
       IN  \E price \in BotMarketPrices, outcome \in OrderOutcomes :
              LET order == [symbol |-> symbol, side |-> "ask", volume |-> held.balance,
                            outcome |-> outcome]
                  sell_amount == RMul(held.balance, R(price))
                  fee == calculate_fees(sell_amount)
                  invested_amount == IF symbol \in DOMAIN positions THEN sell_amount ELSE Zero
                  profit == RSub(RSub(sell_amount, fee), invested_amount)
                  trade_result == [id |-> order_seq + 1, symbol |-> symbol, side |-> "sell",
                                   quantity |-> held.balance, price |-> R(price),
                                   amount |-> sell_amount, fee |-> fee,
                                   invested_amount |-> invested_amount,
                                   profit_amount |-> profit,
                                   profit_rate |-> IF RLt(Zero, invested_amount)
                                                   THEN RDiv(profit, invested_amount) ELSE Zero]
                  results == IF OrderAccepted(outcome) /\ price # 0
                             THEN <<trade_result>> ELSE <<>>
              IN  /\ outcome = "filled" =>
                         /\ symbol \in DOMAIN positions
                         /\ RLe(held.balance, positions[symbol].quantity)
                  /\ order_seq + Fills(<<order>>) <= MaxOrders
                  /\ order_seq' = order_seq + Fills(<<order>>)
                  /\ last' = Done("emergency_sell_all", symbol, PositionOf(symbol),
                                  <<order>>, results, NoLimit)
                  /\ threads' = [threads EXCEPT ![EmergencyWorker] =
                                     [@ EXCEPT !.sweep = Tail(@),
                                               !.pending = @ \o results,
                                               !.ordered = TRUE]]
    /\ UNCHANGED <<walletVars, include_fees, positions, riskVars, realizedVars,
                   is_running, is_paused, starts>>

(* emergency_sell_all after the loop: positions.clear() *)
EmergencyClear ==
    /\ threads[EmergencyWorker].pc = "selling"
    /\ threads[EmergencyWorker].sweep = <<>>
    /\ positions' = NoPositions
    /\ threads' = [threads EXCEPT ![EmergencyWorker].pc = "done"]
    /\ UNCHANGED <<walletVars, include_fees, riskVars, order_seq, last, realizedVars,
                   is_running, is_paused, starts>>

(* the symbol the trading thread is at *)
SymbolAtHand(w) ==
    IF threads[w].pc = "signals" THEN {target_coins[threads[w].i]}
    ELSE IF threads[w].pc = "sweep" /\ threads[w].sweep # <<>> THEN {Head(threads[w].sweep)}
    ELSE {}

(* a step of the trading thread beside the liquidation: for a coin the
   liquidation has sold, _get_coin_balance gives 0 and execute_sell_order
   returns before any order *)
TradingBeside(w) ==
    /\ TradingStep(w)
    /\ SymbolAtHand(w) \cap EmergencySold # {} =>
          /\ order_seq' = order_seq
          /\ positions' = positions
          /\ threads'[w].ordered = threads[w].ordered

NextEmergency ==
    \/ Start
    \/ Stop
    \/ EmergencyBalances
    \/ EmergencySell
    \/ EmergencyClear
    \/ \E w \in TradingWorkers : TradingBeside(w)

SpecEmergency == InitEmergency /\ [][NextEmergency]_vars

----------------------------------------------------------------------------
(* VirtualWallet (config.py): the exchange of paper trading                *)

(* `krw_amount * 0.0005` *)
wallet_fee_rate == <<5, 10000>>

(* symbol.split('-')[1] *)
Currency(symbol) ==
    IF symbol = "KRW-BTC" THEN "BTC"
    ELSE IF symbol = "KRW-ETH" THEN "ETH"
    ELSE "?"

(* VirtualWallet.__init__ *)
NewWallet(initial_krw) == [c \in {"KRW"} |-> R(initial_krw)]

(* get_balance: balances.get(currency, 0.0) *)
get_balance(currency) ==
    IF currency \in DOMAIN balances THEN balances[currency] ELSE Zero

(* balances[currency] = amount *)
SetBalance(bal, currency, amount) ==
    [c \in (DOMAIN bal) \cup {currency} |-> IF c = currency THEN amount ELSE bal[c]]

(* an order the wallet does not take: it returns None and changes nothing *)
Refused == [result |-> <<>>, balances |-> balances, trade_history |-> trade_history]

(* the trade record of an order the wallet took *)
TradeRecord(side, symbol, current_price, quantity, fee) ==
    [uuid |-> Len(trade_history) + 1, side |-> side, market |-> symbol,
     price |-> R(current_price), volume |-> quantity, paid_fee |-> fee]

(* faulty variant of buy_market_order: the KRW balance is not tested *)
buy_market_order_unfunded(symbol, krw_amount, current_price) ==
    IF current_price = 0 THEN Refused
    ELSE
    LET currency == Currency(symbol)
        fee == RMul(krw_amount, wallet_fee_rate)
        net_amount == RSub(krw_amount, fee)
        quantity == RDiv(net_amount, R(current_price))
        trade_record == TradeRecord("bid", symbol, current_price, quantity, fee)
    IN  [result |-> <<trade_record>>,
         balances |-> SetBalance(SetBalance(balances, "KRW",
                                            RSub(get_balance("KRW"), krw_amount)),
                                 currency, RAdd(get_balance(currency), quantity)),
         trade_history |-> Append(trade_history, trade_record)]

(* buy_market_order(symbol, krw_amount); current_price = 0:
   get_current_price returned None *)
buy_market_order(symbol, krw_amount, current_price) ==
    IF current_price = 0 THEN Refused
    ELSE
    LET currency == Currency(symbol)
        fee == RMul(krw_amount, wallet_fee_rate)
        net_amount == RSub(krw_amount, fee)
        quantity == RDiv(net_amount, R(current_price))
        trade_record == TradeRecord("bid", symbol, current_price, quantity, fee)
    IN  IF RLe(krw_amount, get_balance("KRW"))
        THEN [result |-> <<trade_record>>,
              balances |-> SetBalance(SetBalance(balances, "KRW",
                                                 RSub(get_balance("KRW"), krw_amount)),
                                      currency, RAdd(get_balance(currency), quantity)),
              trade_history |-> Append(trade_history, trade_record)]
        ELSE Refused

(* sell_market_order(symbol, quantity) *)
sell_market_order(symbol, quantity, current_price) ==
    IF current_price = 0 THEN Refused
    ELSE
    LET currency == Currency(symbol)
    IN  IF RLe(quantity, get_balance(currency))
        THEN LET krw_amount == RMul(quantity, R(current_price))
                 fee == RMul(krw_amount, wallet_fee_rate)
                 net_amount == RSub(krw_amount, fee)
                 trade_record == TradeRecord("ask", symbol, current_price, quantity, fee)
             IN  [result |-> <<trade_record>>,
                  balances |-> SetBalance(SetBalance(balances, currency,
                                                     RSub(get_balance(currency), quantity)),
                                          "KRW", RAdd(get_balance("KRW"), net_amount)),
                  trade_history |-> Append(trade_history, trade_record)]
        ELSE Refused

(* the wallet driven one order at a time *)
InitWallet ==
    /\ balances = NewWallet(initial_amount)
    /\ trade_history = <<>>
    /\ include_fees = TRUE
    /\ positions = NoPositions
    /\ daily_pnl = Zero
    /\ daily_trades = 0
    /\ daily_invested_amount = Zero
    /\ daily_profit_amount = Zero
    /\ order_seq = 0
    /\ last = Done("init", "", <<>>, <<>>, <<>>, NoLimit)
    /\ realized_profit = Zero
    /\ realized_basis = Zero
    /\ is_running = FALSE
    /\ is_paused = FALSE
    /\ starts = 0
    /\ threads = [w \in Workers |-> NotStarted]

(* the order `request` answered by `reply`; the request is kept in `last`
   with what the wallet returned *)
WalletOrder(op, request, reply) ==
    /\ Len(reply.trade_history) <= MaxWalletTrades
    /\ balances' = reply.balances
    /\ trade_history' = reply.trade_history
    /\ last' = Done(op, request.symbol, <<>>, <<request>>, reply.result, NoLimit)
    /\ UNCHANGED <<include_fees, positions, riskVars, order_seq, realizedVars, botVars>>

VirtualBuy ==
    \E symbol \in Symbols, krw_amount \in WalletAmounts, price \in WalletPrices :
        WalletOrder("buy_market_order",
                    [symbol |-> symbol, side |-> "bid", volume |-> R(krw_amount), price |-> price],
                    buy_market_order(symbol, R(krw_amount), price))

(* a sell of a part of the holding, of all of it, or of more than it *)
VirtualSell ==
    \E symbol \in Symbols, factor \in WalletFactors, price \in WalletPrices :
        LET held == get_balance(Currency(symbol))
            quantity == IF held = Zero THEN factor ELSE RMul(factor, held)
        IN  WalletOrder("sell_market_order",
                        [symbol |-> symbol, side |-> "ask", volume |-> quantity, price |-> price],
                        sell_market_order(symbol, quantity, price))

NextWallet == VirtualBuy \/ VirtualSell

SpecWallet == InitWallet /\ [][NextWallet]_vars

----------------------------------------------------------------------------
(* OrderExecutor in paper trading: upbit_or_wallet is a VirtualWallet      *)

InitPaper ==
    /\ balances = NewWallet(initial_amount)
    /\ trade_history = <<>>
    /\ include_fees = TRUE
    /\ positions = NoPositions
    /\ daily_pnl = Zero
    /\ daily_trades = 0
    /\ daily_invested_amount = Zero
    /\ daily_profit_amount = Zero
    /\ order_seq = 0
    /\ last = Done("init", "", <<>>, <<>>, <<>>, NoLimit)
    /\ realized_profit = Zero
    /\ realized_basis = Zero
    /\ is_running = FALSE
    /\ is_paused = FALSE
    /\ starts = 0
    /\ threads = [w \in {EmergencyWorker} |-> NotStarted]

(* no emergency_sell_all is under way *)
BetweenOperations == threads[EmergencyWorker].pc = "idle"

(* what the executor makes of the wallet's reply *)
WalletOutcome(reply) == IF reply.result # <<>> THEN "filled" ELSE "none"

(* an order operation of the executor on the wallet: the wallet's reply, the
   ledger update, update_pnl and the return *)
PaperCommit(op, symbol, plan, reply) ==
    /\ BetweenOperations
    /\ Len(trade_history) < MaxPaperTrades
    /\ balances' = reply.balances
    /\ trade_history' = reply.trade_history
    /\ positions' = plan.positions
    /\ IF plan.results # <<>>
       THEN update_pnl(plan.results[1])
       ELSE UNCHANGED riskVars
    /\ order_seq' = order_seq + Fills(plan.sent)
    /\ last' = Done(op, symbol, PositionOf(symbol), plan.sent, plan.results, NoLimit)
    /\ realized_profit' = RAdd(realized_profit, SumProfit(plan.results))
    /\ realized_basis' = RAdd(realized_basis, SumBasis(plan.results))
    /\ UNCHANGED <<include_fees, botVars>>

(* execute_buy_order: the order goes to wallet.buy_market_order, which looks
   the price up itself (market) *)
PaperBuy ==
    \E symbol \in Symbols, price \in PaperSignalPrices, market \in WalletPrices :
        LET krw_balance == get_balance("KRW")
            asked == BuyPlanOf(symbol, R(1), price, TRUE, krw_balance, "none", 0)
            reply == IF asked.sent = <<>> THEN Refused
                     ELSE buy_market_order(symbol, asked.sent[1].volume, market)
        IN  /\ asked.sent = <<>> => market = 0
            /\ PaperCommit("execute_buy_order", symbol,
                           BuyPlanOf(symbol, R(1), price, TRUE, krw_balance,
                                     WalletOutcome(reply), Len(trade_history) + 1),
                           reply)

(* execute_sell_order: the whole balance the wallet holds of the coin goes
   to wallet.sell_market_order *)
PaperSell ==
    \E symbol \in Symbols, price \in PaperSignalPrices, market \in WalletPrices :
        LET coin_balance == get_balance(Currency(symbol))
            asked == SellPlan(symbol, price, coin_balance, "none")
            reply == IF asked.sent = <<>> THEN Refused
                     ELSE sell_market_order(symbol, coin_balance, market)
        IN  /\ asked.sent = <<>> => market = 0
            /\ PaperCommit("execute_sell_order", symbol,
                           SellPlan(symbol, price, coin_balance, WalletOutcome(reply)),
                           reply)

(* emergency_sell_all: wallet.get_balances(), the coins with a balance > 0 *)
PaperEmergencyBalances ==
    /\ BetweenOperations
    /\ Len(trade_history) < MaxPaperTrades
    /\ LET listed == SelectSeq(target_coins,
                               LAMBDA s : RLt(Zero, get_balance(Currency(s))))
       IN  threads' = [threads EXCEPT ![EmergencyWorker] =
                          [@ EXCEPT !.pc = "selling",
                                    !.sweep = [k \in DOMAIN listed |->
                                                  [symbol |-> listed[k],
                                                   balance |-> get_balance(Currency(listed[k]))]]]]
    /\ UNCHANGED <<walletVars, include_fees, positions, riskVars, order_seq, last,
                   realizedVars, is_running, is_paused, starts>>

(* emergency_sell_all: one turn of the loop; the wallet looks the price up
   itself (market) *)
PaperEmergencySell ==
    /\ threads[EmergencyWorker].pc = "selling"
    /\ threads[EmergencyWorker].sweep # <<>>
    /\ LET held == Head(threads[EmergencyWorker].sweep)
       IN  \E market \in WalletPrices :
              LET reply == sell_market_order(held.symbol, held.balance, market)
                  order == [symbol |-> held.symbol, side |-> "ask", volume |-> held.balance,
                            outcome |-> WalletOutcome(reply)]
              IN  /\ balances' = reply.balances
                  /\ trade_history' = reply.trade_history
                  /\ order_seq' = order_seq + Fills(<<order>>)
                  /\ last' = Done("emergency_sell_all", held.symbol, PositionOf(held.symbol),
                                  <<order>>, <<>>, NoLimit)
                  /\ threads' = [threads EXCEPT ![EmergencyWorker].sweep = Tail(@)]
    /\ UNCHANGED <<include_fees, positions, riskVars, realizedVars,
                   is_running, is_paused, starts>>

(* emergency_sell_all after the loop: positions.clear(), and the return *)
PaperEmergencyClear ==
    /\ threads[EmergencyWorker].pc = "selling"
    /\ threads[EmergencyWorker].sweep = <<>>
    /\ positions' = NoPositions
    /\ threads' = [threads EXCEPT ![EmergencyWorker].pc = "idle"]
    /\ UNCHANGED <<walletVars, include_fees, riskVars, order_seq, last, realizedVars,
                   is_running, is_paused, starts>>

NextPaper ==
    \/ PaperBuy
    \/ PaperSell
    \/ PaperEmergencyBalances
    \/ PaperEmergencySell
    \/ PaperEmergencyClear

SpecPaper == InitPaper /\ [][NextPaper]_vars

----------------------------------------------------------------------------
(* TradingBot with the error log of the trading pass kept in `last`        *)

(* faulty variant of the handler: an error ends the pass *)
AfterErrorEndsPass(t) == PassOver(t)

(* _process_trading_signals: `except Exception as e: log_error(...);
   continue` *)
AfterError(t) == AfterSymbol(t)

(* _process_trading_signals for one symbol when analyze_symbol, the advisory
   check or the alert after the order raises: the handler logs the symbol
   and the pass goes on *)
SignalRaises(w) ==
    /\ threads[w].pc = "signals"
    /\ last' = Done("log_error", target_coins[threads[w].i], <<>>, <<>>, <<>>, NoLimit)
    /\ threads' = [threads EXCEPT ![w] = AfterError(@)]
    /\ UNCHANGED <<walletVars, include_fees, positions, riskVars, order_seq, realizedVars,
                   is_running, is_paused, starts>>

PassStep(w) ==
    \/ /\ w[1] = "trading"
       /\ \/ TradingHead(w)
          \/ TradingStop(w)
          \/ TradingSignalOf(w, BotSignals \ {"raises"})
          \/ SignalRaises(w)
          \/ TradingBook(w)
          \/ TradingStops(w)
          \/ TradingSweep(w)
    \/ ClaudeStep(w)
    \/ TelegramStep(w)

NextPass ==
    \/ Start
    \/ Stop
    \/ PauseTrading
    \/ ResumeTrading
    \/ \E w \in Workers : PassStep(w)

SpecPass == InitBot /\ [][NextPass]_vars

----------------------------------------------------------------------------
(* SimpleTradingBot (main.py): start() runs the loop in the calling thread,
   which is modelled as the trading thread of that start                   *)

(* what start() / stop() returned *)
Returned(op, value) == Done(op, "", <<>>, <<>>, <<value>>, NoLimit)

(* start(); ok: _validate_fund_safety passes *)
SimpleStart ==
    \E ok \in BOOLEAN :
        IF ~ok
        THEN /\ last' = Returned("start", FALSE)
             /\ UNCHANGED <<walletVars, include_fees, positions, riskVars, order_seq, realizedVars, botVars>>
        ELSE /\ starts < MaxStarts
             /\ is_running' = TRUE
             /\ is_paused' = FALSE
             /\ starts' = starts + 1
             /\ threads' = [threads EXCEPT ![<<"trading", starts + 1>>] =
                                [NotStarted EXCEPT !.pc = "head"]]
             /\ UNCHANGED <<walletVars, include_fees, positions, riskVars, order_seq, last, realizedVars>>

(* stop() *)
SimpleStop ==
    /\ is_running' = FALSE
    /\ is_paused' = FALSE
    /\ last' = Returned("stop", TRUE)
    /\ UNCHANGED <<walletVars, include_fees, positions, riskVars, order_seq, realizedVars, starts, threads>>

(* pause_trading(): a toggle *)
SimplePause ==
    /\ is_paused' = ~is_paused
    /\ UNCHANGED <<walletVars, include_fees, positions, riskVars, order_seq, last, realizedVars,
                   is_running, starts, threads>>

(* the loop of start() from its `while self.is_running` test to the limit
   check of _simple_trading_loop; on a halt the loop calls self.stop(),
   returns, sleeps 30 s and goes round *)
SimpleHead(w) ==
    /\ threads[w].pc = "head"
    /\ IF ~is_running
       THEN /\ threads' = [threads EXCEPT ![w].pc = "done"]
            /\ last' = Returned("start", TRUE)
            /\ UNCHANGED <<is_running, is_paused>>
       ELSE IF is_paused
       THEN UNCHANGED <<threads, last, is_running, is_paused>>
       ELSE IF check_daily_limits[1]
       THEN /\ is_running' = FALSE
            /\ is_paused' = FALSE
            /\ threads' = [threads EXCEPT ![w].limit_reached = TRUE]
            /\ UNCHANGED last
       ELSE /\ threads' = [threads EXCEPT ![w] = [@ EXCEPT !.pc = "signals", !.i = 1,
                                                           !.limit_reached = FALSE]]
            /\ UNCHANGED <<last, is_running, is_paused>>
    /\ UNCHANGED <<walletVars, include_fees, positions, riskVars, order_seq, realizedVars, starts>>

(* the thread after the symbol at index i of _simple_trading_loop: the next
   symbol, or _print_status, the sleep and the loop test *)
SimpleAfterSymbol(t) ==
    IF t.i < Len(target_coins)
    THEN [t EXCEPT !.pc = "signals", !.i = @ + 1]
    ELSE [t EXCEPT !.pc = "head", !.i = 0, !.ordered = FALSE]

(* _simple_trading_loop for one symbol: analyze_symbol, then the order up to
   the executor's ledger update; a SELL signal is followed only for a symbol
   in the ledger *)
SimpleSignal(w) ==
    /\ threads[w].pc = "signals"
    /\ LET symbol == target_coins[threads[w].i]
       IN  \E signal \in BotSignals, price \in BotSignalPrices, outcome \in OrderOutcomes :
              LET plan == IF signal = "BUY"
                          THEN BuyPlan(symbol, R(1), price, TRUE, initial_amount, outcome)
                          ELSE IF signal = "SELL" /\ symbol \in DOMAIN positions
                          THEN SellPlan(symbol, price, ListedBalance(symbol), outcome)
                          ELSE Declined(<<>>)
              IN  /\ plan.sent = <<>> => outcome = "none"
                  /\ LedgerStep(w, plan, SimpleAfterSymbol(threads[w]))

(* the executor's update_pnl(trade_result) and the return into the loop *)
SimpleBook(w) ==
    /\ threads[w].pc = "book"
    /\ update_pnl(threads[w].pending[1])
    /\ threads' = [threads EXCEPT ![w] = [SimpleAfterSymbol(@) EXCEPT !.pending = <<>>]]
    /\ UNCHANGED <<walletVars, include_fees, positions, order_seq, last, realizedVars,
                   is_running, is_paused, starts>>

SimpleStep(w) ==
    \/ SimpleHead(w)
    \/ SimpleSignal(w)
    \/ SimpleBook(w)

NextSimple ==
    \/ SimpleStart
    \/ SimpleStop
    \/ SimplePause
    \/ \E w \in TradingWorkers : SimpleStep(w)

SpecSimple == InitBot /\ [][NextSimple]_vars

----------------------------------------------------------------------------
(* Properties of the order operations                                      *)

(* the last operation was execute_buy_order / execute_sell_order and its
   market order came back as an order *)
BuyFilled == last.op = "execute_buy_order" /\ last.results # <<>>
SellFilled == last.op = "execute_sell_order" /\ last.results # <<>>

(* the next state is the end of an execute_buy_order / execute_sell_order
   whose market order was sent and returned None or raised *)
ExchangeCallFailed ==
    /\ last'.op \in {"execute_buy_order", "execute_sell_order"}
    /\ last'.sent # <<>>
    /\ last'.sent[1].outcome \in {"none", "raises"}

(* C1: when the market order of execute_buy_order or execute_sell_order
   returns no order or raises, the positions map and the daily counters
   (invested amount, profit amount, trade count) are what they were before
   the operation started. *)
C1_FailedOrderLeavesStateUntouched ==
    [][ExchangeCallFailed =>
          /\ positions' = positions
          /\ daily_invested_amount' = daily_invested_amount
          /\ daily_profit_amount' = daily_profit_amount
          /\ daily_trades' = daily_trades]_vars

(* a sell whose order raised, on a held symbol, after a trade was booked *)
C1_Witness ==
    /\ last.op = "execute_sell_order"
    /\ last.sent # <<>>
    /\ last.sent[1].outcome = "raises"
    /\ last.symbol \in DOMAIN positions
    /\ daily_trades > 0

(* C2: after any sequence of successful buys on a symbol (the first creating
   the position, later ones merging into it, fees on or off) the position's
   average price is its total invested amount divided by its quantity. *)
C2_AvgPriceIsInvestedOverQuantity ==
    \A s \in DOMAIN positions :
        positions[s].avg_price = RDiv(positions[s].total_invested, positions[s].quantity)

(* C3: the ledger holds at most one position per symbol (it is a map keyed
   by the traded symbols) and every position in it has quantity > 0, whatever
   buys, sells and emergency liquidations happened. *)
C3_PositionsHavePositiveQuantity ==
    /\ DOMAIN positions \subseteq Symbols
    /\ \A s \in DOMAIN positions : RLt(Zero, positions[s].quantity)

(* a second buy of a held symbol has merged into its position *)
C3_Witness ==
    /\ BuyFilled
    /\ last.position # <<>>
    /\ Cardinality(DOMAIN positions) = 1
    /\ order_seq = 2

(* the fraction of the position a successful sell covered *)
SoldFraction == RDiv(last.results[1].quantity, last.position[1].quantity)

(* C4: a successful sell of a fraction f (0 < f < 1) of the position's
   quantity attributes the cost basis total_invested * f to the sale and
   leaves the position open with quantity * (1 - f), total_invested * (1 - f)
   and the same average price. *)
C4_PartialSellKeepsRemainder ==
    (SellFilled /\ RLt(last.results[1].quantity, last.position[1].quantity)) =>
        LET before == last.position[1]
            rest == RSub(R(1), SoldFraction)
        IN  /\ TradeBasis(last.results[1]) = RMul(before.total_invested, SoldFraction)
            /\ last.symbol \in DOMAIN positions
            /\ positions[last.symbol].quantity = RMul(before.quantity, rest)
            /\ positions[last.symbol].total_invested = RMul(before.total_invested, rest)
            /\ positions[last.symbol].avg_price = before.avg_price

(* C5: when a sell of the entire held quantity of a symbol succeeds, the
   symbol's position is gone from the ledger, and it stays not-found until a
   later buy of that symbol re-creates it. *)
C5_FullSellRemovesPosition ==
    /\ [](SellFilled /\ last.results[1].quantity = last.position[1].quantity
             => last.symbol \notin DOMAIN positions)
    /\ [][\A s \in Symbols :
             (s \notin DOMAIN positions /\ s \in DOMAIN positions')
                 => (last'.op = "execute_buy_order" /\ last'.symbol = s
                        /\ last'.results # <<>>)]_vars

(* a successful sell of exactly the held quantity *)
C5_Witness ==
    /\ SellFilled
    /\ last.results[1].quantity = last.position[1].quantity
    /\ last.symbol \notin DOMAIN positions

(* C6: every successful execute_sell_order raises daily_profit_amount by the
   trade's profit_amount and daily_invested_amount by the cost basis of the
   quantity sold, which is positive. *)
C6_SellBooksProfitAndBasis ==
    [][(last'.op = "execute_sell_order" /\ last'.results # <<>>) =>
          LET trade_result == last'.results[1]
          IN  /\ daily_profit_amount' = RAdd(daily_profit_amount, trade_result.profit_amount)
              /\ daily_invested_amount' = RAdd(daily_invested_amount, TradeBasis(trade_result))
              /\ RLt(Zero, TradeBasis(trade_result))]_vars

(* C7: once the trades executed since the last reset have a ratio of realized
   profit to invested basis at or below -max_daily_loss, check_daily_limits
   answers halt with the loss-limit reason. *)
C7_RealizedLossHalts ==
    (/\ last.op = "check_daily_limits"
     /\ RLt(Zero, realized_basis)
     /\ RLe(RDiv(realized_profit, realized_basis), RNeg(max_daily_loss)))
        => last.limit = <<TRUE, "loss_limit">>

----------------------------------------------------------------------------
(* Properties of the daily limits                                          *)

(* the three halt conditions, on the counters themselves: the return
   daily_profit_amount / daily_invested_amount counts as 0 while nothing is
   invested *)
ProfitTargetHit ==
    /\ RLt(Zero, daily_invested_amount)
    /\ RLe(RMul(max_daily_profit, daily_invested_amount), daily_profit_amount)
LossLimitHit ==
    /\ RLt(Zero, daily_invested_amount)
    /\ RLe(daily_profit_amount, RNeg(RMul(max_daily_loss, daily_invested_amount)))
TradeCountHit == daily_trades >= max_daily_trades

(* C8: check_daily_limits halts exactly when the daily return is at or above
   max_daily_profit, or at or below -max_daily_loss, or daily_trades has
   reached max_daily_trades, and names the first of these that applies; in
   every other state it reports no halt. *)
C8_LimitsHaltExactlyOnBreach ==
    last.op = "check_daily_limits" =>
        /\ last.limit[1] <=> (ProfitTargetHit \/ LossLimitHit \/ TradeCountHit)
        /\ ProfitTargetHit => last.limit[2] = "profit_target"
        /\ (~ProfitTargetHit /\ LossLimitHit) => last.limit[2] = "loss_limit"
        /\ (~ProfitTargetHit /\ ~LossLimitHit /\ TradeCountHit) => last.limit[2] = "trade_count"
        /\ ~last.limit[1] => last.limit[2] = "normal"

(* a check with the return exactly on the loss limit and the trade count at
   its ceiling: the loss limit is the reason given *)
C8_Witness ==
    /\ last.op = "check_daily_limits"
    /\ daily_profit_amount = RNeg(RMul(max_daily_loss, daily_invested_amount))
    /\ RLt(Zero, daily_invested_amount)
    /\ daily_trades >= max_daily_trades
    /\ last.limit = <<TRUE, "loss_limit">>

----------------------------------------------------------------------------
(* Properties of the worker threads                                        *)

(* thread w takes a step *)
Steps(w) == threads'[w] # threads[w]

(* the places of a trading pass at which symbols are analyzed, orders sent
   and fills booked *)
OrderingPlaces == {"signals", "book", "stops", "sweep"}

(* the pass: a trading thread whose limit check reported a halt sends no
   order in that pass and is at none of the pass's ordering places. *)
HaltedPassSendsNoOrder ==
    \A w \in TradingWorkers :
        threads[w].limit_reached =>
            /\ ~threads[w].ordered
            /\ threads[w].pc \notin OrderingPlaces
            /\ threads[w].pending = <<>>

(* the stop: the self.stop() of a halting thread leaves is_running
   false, and is_running is cleared only by a stop() from outside or by a
   trading thread whose limit check reported a halt; a trading thread ends
   only when is_running is false. *)
OnlyHaltOrStopEndsLoop ==
    \A w \in TradingWorkers :
        /\ (threads[w].pc = "stop" /\ Steps(w)) => ~is_running'
        /\ (threads[w].pc # "done" /\ threads'[w].pc = "done") => ~is_running'
        /\ (is_running /\ ~is_running' /\ threads' # threads) =>
               \E v \in TradingWorkers :
                   threads[v].pc = "stop" /\ threads[v].limit_reached /\ Steps(v)

(* C9: when the trading worker begins a pass in which check_daily_limits
   reports a halt, it places no order in that pass, the loop is left stopped
   (is_running false), and the worker terminates, neither blocked in the
   join on itself nor looping on, unless start() is called again before it
   re-tests is_running; nothing but a halt or a stop() clears is_running. *)
C9_HaltStopsLoopAndWorkerEnds ==
    /\ []HaltedPassSendsNoOrder
    /\ [][OnlyHaltOrStopEndsLoop]_vars
    /\ \A w \in TradingWorkers : \A n \in 0..MaxStarts :
          (threads[w].pc = "stop" /\ starts = n)
              ~> (threads[w].pc = "done" \/ starts > n)

(* a trading thread has ended after its pass found the trade ceiling
   reached, by its own stop(): nobody else cleared is_running *)
C9_Witness ==
    \E w \in TradingWorkers :
        /\ threads[w].pc = "done"
        /\ threads[w].limit_reached
        /\ daily_trades >= max_daily_trades
        /\ ~is_running
        /\ order_seq > 0

(* the places at which the advisory and the reporting thread read the ledger
   or the daily counters *)
ReadingPlaces == {"analyze", "report_positions", "report_counters"}

(* C10: no read of the ledger or the daily counters by the advisory or the
   reporting thread happens while a fill is in the ledger and not yet in the
   daily counters (or the reverse). *)
C10_ReadersNeverMeetPendingFill ==
    [][\A w \in Workers :
          (threads[w].pc \in ReadingPlaces /\ Steps(w)) => ~PendingFill]_vars

----------------------------------------------------------------------------
(* Properties of repeated order replies                                    *)

(* C11: a fill is applied once per exchange order id: when execute_buy_order
   is answered with an order whose uuid the ledger already holds for the
   symbol, the positions map and the daily counters stay as they were. *)
C11_FillAppliedOncePerOrderId ==
    [][(/\ last'.op = "execute_buy_order"
        /\ last'.results # <<>>
        /\ last'.results[1].id \in AppliedOrderIds(last'.symbol))
          => /\ positions' = positions
             /\ riskVars' = riskVars]_vars

----------------------------------------------------------------------------
(* Properties of the emergency liquidation                                 *)

(* the operation ending in the next state sent an order for symbol s /
   returned a TradeResult for symbol s *)
AttemptedNext(s) == \E k \in 1..Len(last'.sent) : last'.sent[k].symbol = s
LiquidatedNext(s) == \E k \in 1..Len(last'.results) : last'.results[k].symbol = s

(* C12: emergency_sell_all sends a sell order for every symbol the ledger
   holds, whether or not other orders fail; afterwards the symbols whose
   order succeeded are gone from the ledger and the symbols whose order
   failed are still in it. *)
C12_EmergencyKeepsFailedSymbols ==
    [][last'.op = "emergency_sell_all" =>
          \A s \in DOMAIN positions :
              /\ AttemptedNext(s)
              /\ LiquidatedNext(s) => s \notin DOMAIN positions'
              /\ ~LiquidatedNext(s) => s \in DOMAIN positions']_vars

----------------------------------------------------------------------------
(* Properties of the position sizing                                       *)

(* C13: calculate_position_size returns 0 when the balance is below
   min_trade_amount or the ledger holds max_positions or more positions;
   every other result that is not 0 is at least min_trade_amount and at most
   balance * max_position_size. *)
C13_SizeIsZeroOrWithinLimits ==
    last.op = "calculate_position_size" =>
        LET r == last.results[1]
        IN  /\ RLt(r.balance, R(min_trade_amount)) => r.size = Zero
            /\ Cardinality(DOMAIN positions) >= max_positions => r.size = Zero
            /\ r.size # Zero =>
                   /\ RLe(R(min_trade_amount), r.size)
                   /\ RLe(r.size, RMul(r.balance, max_position_size))

(* a result exactly at min_trade_amount: 250000 * 0.2 at full confidence *)
C13_Witness ==
    /\ last.op = "calculate_position_size"
    /\ last.results[1].size = R(min_trade_amount)
    /\ last.results[1].balance = R(250000)
    /\ Cardinality(DOMAIN positions) < max_positions

(* C14: whatever buys and sells happened, the ledger never holds more than
   max_positions positions, and a buy that starts while it holds
   max_positions is declined: no order is sent and the ledger is as before. *)
C14_PositionsNeverExceedMax ==
    /\ [](Cardinality(DOMAIN positions) <= max_positions)
    /\ [][(/\ last'.op = "execute_buy_order"
            /\ Cardinality(DOMAIN positions) >= max_positions)
              => /\ last'.sent = <<>>
                 /\ last'.results = <<>>
                 /\ positions' = positions]_vars

(* a buy of a market not held is declined with five positions open, one of
   them re-opened after a sell had made room *)
C14_Witness ==
    /\ last.op = "execute_buy_order"
    /\ last.sent = <<>>
    /\ last.symbol \notin DOMAIN positions
    /\ Cardinality(DOMAIN positions) = max_positions
    /\ order_seq = MaxMarketOrders

----------------------------------------------------------------------------
(* Properties of the stop-loss price                                       *)

(* C15: after every buy, the first of a symbol or an averaging one, the
   position's stop-loss price is its average price times (1 - stop_loss_rate),
   and check_stop_loss answers true for a price exactly when the price is at
   or below that stop-loss price of the position as it is now. *)
C15_StopLossTracksAverage ==
    /\ \A s \in DOMAIN positions :
           positions[s].stop_loss = RMul(positions[s].avg_price, RSub(R(1), stop_loss_rate))
    /\ last.op = "check_stop_loss" =>
           (last.results[1].hit <=>
               /\ last.position # <<>>
               /\ RLe(last.results[1].price,
                      RMul(last.position[1].avg_price, RSub(R(1), stop_loss_rate))))

(* a price exactly on the stop-loss price of a position averaged over two
   buys at different prices triggers *)
C15_Witness ==
    /\ last.op = "check_stop_loss"
    /\ last.results[1].hit
    /\ last.position # <<>>
    /\ Len(last.position[1].buy_orders) = 2
    /\ last.position[1].avg_price \notin {R(p) : p \in SignalPrices}
    /\ last.results[1].price = last.position[1].stop_loss

----------------------------------------------------------------------------
(* Properties of start() and stop()                                        *)

(* C16: a start() made while is_running is set (running or paused) returns
   False, changes neither the flags nor the ledger nor the counters and
   starts no thread; a stop() made while is_running is clear returns False
   and changes nothing either. *)
C16_IllegalStartStopRejected ==
    [][/\ is_running =>
               /\ starts' = starts
               /\ \A w \in Workers : threads[w].pc = "idle" => threads'[w].pc = "idle"
       /\ (is_running /\ last'.op = "start" /\ last' # last) =>
               /\ last'.results = <<FALSE>>
               /\ UNCHANGED <<positions, riskVars, botVars>>
       /\ (~is_running /\ last'.op = "stop" /\ last' # last) =>
               /\ last'.results = <<FALSE>>
               /\ UNCHANGED <<positions, riskVars, botVars>>]_vars

----------------------------------------------------------------------------
(* Properties of the paused loop                                           *)

(* C17: an iteration of the trading loop that begins while the bot is paused
   sends no order and leaves the ledger and the daily counters as they were;
   the thread sleeps and comes back to the loop test. *)
C17_PausedIterationChangesNothing ==
    [][\A w \in TradingWorkers :
          (is_running /\ is_paused /\ TradingHead(w)) =>
              /\ order_seq' = order_seq
              /\ positions' = positions
              /\ riskVars' = riskVars
              /\ threads'[w] = threads[w]]_vars

----------------------------------------------------------------------------
(* Properties of the profit of a sell                                      *)

(* of a successful sell: the part of the position's cost that belongs to the
   quantity sold (all of it when the exchange held more than the ledger),
   and the profit left of the proceeds after the fee and that cost *)
SoldBasis ==
    RMul(last.position[1].total_invested, RMin(R(1), SoldFraction))
SoldProfit ==
    LET t == last.results[1]
    IN  RSub(RSub(RMul(t.quantity, t.price), t.fee), SoldBasis)

(* C18 as stated: for every successful sell, profit_amount is quantity *
   price less the sell fee less the proportional cost basis of the quantity
   sold, and profit_rate is profit_amount divided by that basis (0 when the
   basis is 0). *)
C18_ProfitRateIsProfitOverBasis ==
    SellFilled =>
        /\ last.results[1].profit_amount = SoldProfit
        /\ last.results[1].profit_rate =
               IF SoldBasis = Zero THEN Zero ELSE RDiv(SoldProfit, SoldBasis)

(* C18 as amended: profit_amount is as stated; profit_rate is profit_amount
   divided by the basis as long as that ratio is within -10 .. 10, and the
   relative price change (price - avg_price) / avg_price when it is beyond. *)
C18_ProfitRateClampedBeyondTenfold ==
    SellFilled =>
        LET t == last.results[1]
            avg_price == last.position[1].avg_price
            ratio == IF SoldBasis = Zero THEN Zero ELSE RDiv(SoldProfit, SoldBasis)
        IN  /\ t.profit_amount = SoldProfit
            /\ t.profit_rate = IF RLt(R(10), RAbs(ratio))
                               THEN RDiv(RSub(t.price, avg_price), avg_price)
                               ELSE ratio

(* a sell of half a position at twelve times its price, fees on: the ratio
   of profit to basis is beyond 10 and the rate recorded is the price change *)
C18_Witness ==
    /\ SellFilled
    /\ include_fees
    /\ SoldFraction = <<1, 2>>
    /\ RLt(R(10), RDiv(SoldProfit, SoldBasis))
    /\ last.results[1].profit_rate = R(11)
    /\ last.results[1].profit_rate # RDiv(SoldProfit, SoldBasis)

----------------------------------------------------------------------------
(* Properties of the daily counters                                        *)

(* C19: a successful buy raises daily_invested_amount by the invested_amount
   of its TradeResult, which is the KRW amount ordered, leaves
   daily_profit_amount as it was, and its TradeResult carries profit_amount 0
   and profit_rate 0. *)
C19_BuyBooksInvestedAmountOnly ==
    [][(last'.op = "execute_buy_order" /\ last'.results # <<>>) =>
          LET trade_result == last'.results[1]
          IN  /\ trade_result.invested_amount = last'.sent[1].volume
              /\ RLt(Zero, trade_result.invested_amount)
              /\ daily_invested_amount' =
                     RAdd(daily_invested_amount, trade_result.invested_amount)
              /\ daily_profit_amount' = daily_profit_amount
              /\ trade_result.profit_amount = Zero
              /\ trade_result.profit_rate = Zero]_vars

(* a second successful buy, after which 400000 KRW are booked as invested *)
C19_Witness ==
    /\ BuyFilled
    /\ order_seq = 2
    /\ daily_trades = 2
    /\ daily_invested_amount = R(400000)

(* C20: daily_trades is the number of fills confirmed since the last
   reset_daily: reset_daily sets it to 0 and every other step (a buy, a signal
   sell, a stop-loss sell, an emergency liquidation) raises it by exactly the
   number of orders the exchange filled in that step. *)
C20_TradeCountIsFillCount ==
    [][IF last'.op = "reset_daily"
       THEN daily_trades' = 0
       ELSE daily_trades' - daily_trades = order_seq' - order_seq]_vars

(* the daily return check_daily_limits derives from the two amounts *)
ActualDailyReturn ==
    IF RLt(Zero, daily_invested_amount)
    THEN RDiv(daily_profit_amount, daily_invested_amount)
    ELSE Zero

(* C21: reset_daily sets daily_invested_amount, daily_profit_amount,
   daily_trades and the daily return (the stored daily_pnl and the return
   check_daily_limits derives) to 0 and leaves the positions map as it was;
   a second reset_daily right after the first changes nothing at all. *)
C21_ResetDailyZeroesAndIsIdempotent ==
    /\ [][last'.op = "reset_daily" =>
             /\ daily_invested_amount' = Zero
             /\ daily_profit_amount' = Zero
             /\ daily_trades' = 0
             /\ daily_pnl' = Zero
             /\ ActualDailyReturn' = Zero
             /\ positions' = positions
             /\ order_seq' = order_seq]_vars
    /\ [][(last.op = "reset_daily" /\ last'.op = "reset_daily") => vars' = vars]_vars

(* reset_daily after two buys were booked, both positions still open *)
C21_Witness ==
    /\ last.op = "reset_daily"
    /\ order_seq = 2
    /\ Cardinality(DOMAIN positions) = 2
    /\ daily_trades = 0

----------------------------------------------------------------------------
(* Properties of execute_sell_order and execute_buy_order, continued       *)

(* C22: the quantity execute_sell_order sends to the exchange, and the
   quantity of the TradeResult it returns, never exceed the quantity of the
   ledger position, also when the exchange holds more of the coin than the
   ledger records. *)
C22_SellNeverExceedsLedgerQuantity ==
    (last.op = "execute_sell_order" /\ last.sent # <<>>) =>
        /\ RLe(last.sent[1].volume, last.position[1].quantity)
        /\ last.results # <<>> =>
               RLe(last.results[1].quantity, last.position[1].quantity)

(* C23: execute_sell_order for a symbol with no open position returns no
   TradeResult, sends no order to the exchange (so no balance moves) and
   leaves the positions map and the daily counters as they were. *)
C23_SellWithoutPositionDoesNothing ==
    [][(last'.op = "execute_sell_order" /\ last'.symbol \notin DOMAIN positions) =>
          /\ last'.sent = <<>>
          /\ last'.results = <<>>
          /\ positions' = positions
          /\ UNCHANGED riskVars
          /\ order_seq' = order_seq]_vars

(* a sell of KRW-ETH asked for while only KRW-BTC is held and one trade is
   booked *)
C23_Witness ==
    /\ last.op = "execute_sell_order"
    /\ last.symbol = "KRW-ETH"
    /\ last.position = <<>>
    /\ DOMAIN positions = {"KRW-BTC"}
    /\ daily_trades = 1

(* C24: check_daily_limits changes neither the daily counters nor the ledger,
   and its answer is the one the counters of the moment call for, so a
   second call with no fill or reset in between returns the same
   (halt, reason) as the first. *)
C24_CheckDailyLimitsIsPure ==
    /\ [][last'.op = "check_daily_limits" =>
             /\ UNCHANGED riskVars
             /\ positions' = positions
             /\ order_seq' = order_seq
             /\ last'.limit = check_daily_limits]_vars
    /\ [][(last.op = "check_daily_limits" /\ last'.op = "check_daily_limits") =>
             last'.limit = last.limit]_vars

(* check_daily_limits answering "halt" on the loss limit after two booked
   trades *)
C24_Witness ==
    /\ last.op = "check_daily_limits"
    /\ last.limit = <<TRUE, "loss_limit">>
    /\ daily_trades = 2

----------------------------------------------------------------------------
(* Properties of the trading pass and of the other workers                 *)

(* C25: when the processing of a symbol raises during a trading pass, the
   handler leaves is_running, the ledger and the counters alone and the pass
   goes on with the next symbol of target_coins (after the last one, with the
   stop-loss sweep); and a pass takes the symbols one after the other, each
   once: a thread in the pass never stays on a symbol it is done with and
   never goes back to one. *)
C25_ErrorInOneSymbolLeavesPassGoing ==
    /\ [][\A w \in TradingWorkers :
             SignalRaises(w) =>
                /\ is_running' = is_running
                /\ positions' = positions
                /\ order_seq' = order_seq
                /\ UNCHANGED riskVars
                /\ IF threads[w].i < Len(target_coins)
                   THEN /\ threads'[w].pc = "signals"
                        /\ threads'[w].i = threads[w].i + 1
                   ELSE threads'[w].pc = "stops"]_vars
    /\ [][\A w \in TradingWorkers :
             (threads[w].i > 0 /\ threads'[w] # threads[w]) =>
                \/ /\ threads[w].pc = "signals"
                   /\ threads'[w].pc = "book"
                   /\ threads'[w].i = threads[w].i
                \/ /\ threads[w].i < Len(target_coins)
                   /\ threads'[w].pc = "signals"
                   /\ threads'[w].i = threads[w].i + 1
                \/ /\ threads[w].i = Len(target_coins)
                   /\ threads'[w].pc = "stops"]_vars

(* KRW-BTC has just raised and been logged; the bot is running and the pass
   is at KRW-ETH *)
C25_Witness ==
    /\ last.op = "log_error"
    /\ last.symbol = "KRW-BTC"
    /\ is_running
    /\ \E w \in TradingWorkers : threads[w].pc = "signals" /\ threads[w].i = 2

(* the threads of _claude_loop and _telegram_loop *)
AdvisoryAndReportingWorkers == {w \in Workers : w[1] \in {"claude", "telegram"}}

(* C26: no step of the advisory-monitor worker (_claude_loop) or of the
   reporting worker (_telegram_loop) changes the positions map or a daily
   counter, and none sends an order to the exchange. *)
C26_MonitorAndReportOnlyRead ==
    [][\A w \in AdvisoryAndReportingWorkers :
          (ClaudeStep(w) \/ TelegramStep(w)) =>
              /\ positions' = positions
              /\ UNCHANGED riskVars
              /\ order_seq' = order_seq
              /\ \A t \in Workers : threads'[t].ordered = threads[t].ordered]_vars

(* the reporting worker has read the positions and the advisory worker is
   at its analysis, with a position open and a trade booked today *)
C26_Witness ==
    /\ positions # NoPositions
    /\ daily_trades >= 1
    /\ \E w \in Workers : w[1] = "telegram" /\ threads[w].pc = "report_counters"
    /\ \E w \in Workers : w[1] = "claude" /\ threads[w].pc = "analyze"

----------------------------------------------------------------------------
(* Properties of the limit on the profit rate                              *)

(* the rate execute_sell_order computes before it looks at its size *)
ComputedRate == IF SoldBasis = Zero THEN Zero ELSE RDiv(SoldProfit, SoldBasis)

(* the relative change of the sell price against the position's average *)
PriceChange ==
    RDiv(RSub(last.results[1].price, last.position[1].avg_price),
         last.position[1].avg_price)

(* C27: when the profit rate a sell computes is above 10 in absolute value,
   the TradeResult carries (price - avg_price) / avg_price of the position
   instead; when it is at most 10 in absolute value, exactly 10 included, the
   computed rate is carried as it is; the profit_amount is the computed one
   either way. *)
C27_RateReplacedOnlyAboveTenfold ==
    SellFilled =>
        /\ RLt(R(10), RAbs(ComputedRate)) => last.results[1].profit_rate = PriceChange
        /\ RLe(RAbs(ComputedRate), R(10)) => last.results[1].profit_rate = ComputedRate
        /\ last.results[1].profit_amount = SoldProfit

(* a sale of twice the ledger quantity at twelve times the price without
   fees: the computed rate is 23 and the rate carried is the price change 11 *)
C27_Witness ==
    /\ SellFilled
    /\ ~include_fees
    /\ ComputedRate = R(23)
    /\ PriceChange = R(11)
    /\ last.results[1].profit_rate = R(11)

----------------------------------------------------------------------------
(* Properties of the checks of execute_buy_order                           *)

(* C28: a buy whose quantity or invested amount is not positive is rejected:
   every execute_buy_order that returns a TradeResult, or that changes the
   positions map or a daily counter, has a quantity above 0 and an invested
   amount above 0. *)
C28_NonPositiveFillRejected ==
    [][(/\ last'.op = "execute_buy_order"
        /\ \/ last'.results # <<>>
           \/ positions' # positions
           \/ riskVars' # riskVars) =>
          /\ last'.results # <<>>
          /\ RLt(Zero, last'.results[1].quantity)
          /\ RLt(Zero, last'.results[1].invested_amount)]_vars

(* C29: execute_buy_order sends its order for the amount
   calculate_position_size gave, and when that amount is 0 or below
   min_trade_amount it declines.  So of the buys at a valid price with a
   balance of min_trade_amount or more: every order sent is for
   min_trade_amount or more; none is sent while the ledger holds
   max_positions positions, where the size is 0; and a buy that sends no
   order returns no TradeResult and leaves the positions map and the daily
   counters as they were (no order: no balance moves). *)
C29_UnsizedBuyIsDeclined ==
    [][last'.op = "execute_buy_order" =>
          /\ last'.sent # <<>> => RLe(R(min_trade_amount), last'.sent[1].volume)
          /\ Cardinality(DOMAIN positions) >= max_positions => last'.sent = <<>>
          /\ last'.sent = <<>> =>
                 /\ last'.results = <<>>
                 /\ positions' = positions
                 /\ UNCHANGED riskVars
                 /\ order_seq' = order_seq]_vars

(* a buy declined for its size, with room in the ledger, after a buy that
   was filled *)
C29_Witness ==
    /\ last.op = "execute_buy_order"
    /\ last.sent = <<>>
    /\ Cardinality(DOMAIN positions) < max_positions
    /\ order_seq >= 1

(* C30: a buy that is merged into an open position keeps the position's
   entry_time, sets last_buy_time to the time of the buy and appends the uuid
   of its order at the end of buy_orders; a buy that opens a position starts
   the list with its uuid; and nothing else changes the entry_time or the list
   of a position that stays open.  So the list of an open position is the
   uuids of its buys in the order they were filled. *)
C30_MergeKeepsEntryTimeAndAppendsOrder ==
    [][\A s \in Symbols :
          s \in DOMAIN positions' =>
             IF last'.op = "execute_buy_order" /\ last'.symbol = s /\ last'.results # <<>>
             THEN IF s \in DOMAIN positions
                  THEN /\ positions'[s].entry_time = positions[s].entry_time
                       /\ positions'[s].buy_orders =
                              Append(positions[s].buy_orders, last'.results[1].id)
                       /\ positions'[s].last_buy_time > positions[s].last_buy_time
                  ELSE positions'[s].buy_orders = <<last'.results[1].id>>
             ELSE /\ s \in DOMAIN positions
                  /\ positions'[s].entry_time = positions[s].entry_time
                  /\ positions'[s].buy_orders = positions[s].buy_orders]_vars

(* the second buy of a symbol has been merged: entry at the first buy, last
   buy at the second, both order ids in order *)
C30_Witness ==
    /\ BuyFilled
    /\ last.position # <<>>
    /\ positions[last.symbol].entry_time = 1
    /\ positions[last.symbol].last_buy_time = 2
    /\ positions[last.symbol].buy_orders = <<1, 2>>

----------------------------------------------------------------------------
(* Properties of the sizing, continued                                     *)

(* a confidence brought into 0 .. 1 *)
ClampedConfidence(c) == IF RLt(c, Zero) THEN Zero ELSE RMin(c, R(1))

(* C31: calculate_position_size treats a confidence outside 0 .. 1 as the
   nearest bound: for every balance and ledger its result for confidence c is
   its result for c brought into 0 .. 1. *)
C31_ConfidenceIsClamped ==
    last.op = "calculate_position_size" =>
        LET r == last.results[1]
        IN  r.size = calculate_position_size(r.balance, ClampedConfidence(r.confidence))


----------------------------------------------------------------------------
(* Properties of the stop-loss sweep                                       *)

(* the places of a trading pass after its limit check *)
PassPlaces == {"signals", "book", "stops", "sweep"}

(* C32: a trading pass that got past the pause test and the limit check ends
   only after its stop-loss sweep has gone through every position that was
   open when the sweep began (a pass that finds the ledger empty has nothing
   to sweep); a sell filled by the sweep takes the symbol out of the ledger,
   and nothing comes into the ledger during the sweep, so the symbol is out
   of it when the pass ends. *)
C32_PassSweepsEveryPosition ==
    [][\A w \in TradingWorkers :
          /\ (threads[w].pc \in PassPlaces /\ threads'[w].pc = "head") =>
                \/ DOMAIN positions = {}
                \/ threads[w].pc = "sweep" /\ threads[w].sweep = <<>>
          /\ (threads[w].pc = "stops" /\ threads'[w].pc = "sweep") =>
                \A s \in DOMAIN positions :
                    \E k \in DOMAIN threads'[w].sweep : threads'[w].sweep[k] = s
          /\ (threads[w].pc = "sweep" /\ threads'[w].pc = "sweep"
                                       /\ threads'[w] # threads[w]) =>
                threads'[w].sweep = Tail(threads[w].sweep)
          /\ (threads[w].pc = "sweep" /\ threads'[w].pc = "book") =>
                /\ Head(threads[w].sweep) \notin DOMAIN positions'
                /\ threads'[w].pending[1].symbol = Head(threads[w].sweep)
          /\ (threads[w].pc = "sweep" \/ (threads[w].pc = "book" /\ threads[w].i = 0)) =>
                DOMAIN positions' \subseteq DOMAIN positions]_vars


----------------------------------------------------------------------------
(* Properties of stop(), pause and restart                                 *)

(* thread w has been started and has not ended *)
Alive(w) == threads[w].pc \notin {"idle", "done"}

(* C33: once is_running is cleared, every thread that is alive ends, unless
   is_running is set again first; a thread ends only by its own step: at its
   loop test, having read is_running clear, or at the break after its own
   stop(), which leaves is_running clear.  Nothing else ends it. *)
C33_StoppedWorkersExit ==
    /\ \A w \in Workers : (~is_running /\ Alive(w)) ~> (threads[w].pc = "done" \/ is_running)
    /\ [][\A w \in Workers :
             (Alive(w) /\ threads'[w].pc = "done") =>
                 /\ WorkerStep(w)
                 /\ ~is_running'
                 /\ \/ threads[w].pc \in {"head", "sleep"} /\ ~is_running
                    \/ threads[w].pc = "stop"]_vars

(* stop() was called while the bot was paused, and the three threads of the
   start have ended *)
C33_Witness ==
    /\ ~is_running
    /\ is_paused
    /\ starts = 1
    /\ \A w \in Workers : w[2] = 1 => threads[w].pc = "done"


(* C34: the bot is paused only while it is running: no sequence of start(),
   stop(), pause_trading() and resume_trading() leaves is_paused set with
   is_running clear. *)
C34_PausedOnlyWhileRunning == is_paused => is_running


(* C35: a thread of an earlier start() does no work after a later start():
   the only step it takes from then on is the one that ends it, so at most
   one thread of each kind acts on the ledger and the counters. *)
C35_EarlierWorkersOnlyEnd ==
    [][\A w \in DOMAIN threads :
          (w[2] < starts /\ threads'[w] # threads[w]) => threads'[w].pc = "done"]_vars


(* C36: while is_running is clear (from a stop() that returned True to the
   next start()) no order is filled and the ledger and the daily counters
   stay as they are. *)
C36_NothingMovesWhileStopped ==
    [][(~is_running /\ ~is_running') =>
          /\ order_seq' = order_seq
          /\ positions' = positions
          /\ riskVars' = riskVars]_vars


(* C37: emergency_sell_all places a sell order only for a coin whose position
   is still in the ledger: a position the trading thread has sold is not
   offered to the exchange a second time. *)
C37_NoSecondSellOrder ==
    (last.op = "emergency_sell_all" /\ last.sent # <<>>) => last.position # <<>>


----------------------------------------------------------------------------
(* Properties of the daily counters, continued                             *)

(* C38: daily_trades never exceeds max_daily_trades: once the ceiling is
   reached no further fill is booked before the next reset_daily, neither
   for the later symbols nor by the stop-loss sweep of the same pass. *)
C38_TradeCountStaysWithinCeiling == daily_trades <= max_daily_trades


----------------------------------------------------------------------------
(* Properties of the virtual wallet                                        *)

WalletOps == {"buy_market_order", "sell_market_order"}

(* the wallet has no price for the order, or not the KRW / the coin it asks
   for *)
WalletRefuses(request) ==
    \/ request.price = 0
    \/ request.side = "bid" /\ RLt(get_balance("KRW"), request.volume)
    \/ request.side = "ask" /\ RLt(get_balance(Currency(request.symbol)), request.volume)

(* C40: no balance of the wallet is ever negative, and an order the wallet
   has to refuse (no price, more KRW than it has, more coin than it has)
   returns nothing and leaves the balances and the trade history as they
   were; any other order returns a record. *)
C40_WalletNeverNegativeAndRefusalChangesNothing ==
    /\ [](\A c \in DOMAIN balances : RLe(Zero, balances[c]))
    /\ [][last'.op \in WalletOps =>
             IF WalletRefuses(last'.sent[1])
             THEN last'.results = <<>> /\ walletVars' = walletVars
             ELSE last'.results # <<>>]_vars

(* a buy has been refused for want of KRW after an earlier buy was taken *)
C40_Witness ==
    /\ last.op = "buy_market_order"
    /\ last.results = <<>>
    /\ last.sent[1].price # 0
    /\ RLt(get_balance("KRW"), last.sent[1].volume)
    /\ trade_history # <<>>


(* C39: in paper trading, between operations, a symbol is in the ledger
   exactly when the wallet holds a positive balance of its coin. *)
C39_LedgerMatchesWallet ==
    BetweenOperations =>
        \A s \in Symbols : s \in DOMAIN positions <=> RLt(Zero, get_balance(Currency(s)))

============================================================================
